---- MODULE Spec2Model ----
(***************************************************************************)
(* A model of sobol_index (src/sobol_index.py): first-order and total      *)
(* variance-based sensitivity indices after Saltelli (2002, 2008).         *)
(*                                                                         *)
(* One call of the function is one behaviour: Init draws the arguments,    *)
(* the actions are the statements of the function body in order.           *)
(*                                                                         *)
(* Numbers: the model outputs are integers and every float of the code is  *)
(* an exact rational [n, d] in lowest terms with d > 0.  A float division  *)
(* by a numpy zero gives inf or nan, written with d = 0 (n is the sign, 0   *)
(* for nan).  Rounding is not modelled.                                     *)
(*                                                                         *)
(* The code is Python 2 with the numpy of its time: x != None on an array  *)
(* is the scalar "x is not None", and ss/nsa on integers is floor          *)
(* division.                                                               *)
(***************************************************************************)
EXTENDS Integers, Sequences, FiniteSets, TLC

VARIABLES s, ns, ya, yb, yc, si, sti,
          pc, err,
          nsa, nn, iyA, iyB, iyC,
          fnsa, fnsa1, f02, iyAiyA, varA,
          isi, isti, i, out,
          ncall, held, isiBuf, istiBuf, written,
          array, mask, kPack, afmask, afarray, dout,
          xy, strata, nPts, num, rl, sWidth, sHeight, tl, xsteps, ysteps, rand_xy,
          jRow, kTr, o, goon, it, seedx_trans, seedy_trans, nwritten,
          fhandle, vhandle, var, time, isdim, name, dims, attributes,
          fileattributes, vartype, typ, hand, ret, callno, fentry

args == <<s, ns, ya, yb, yc, si, sti>>
resolved == <<nsa, nn, iyA, iyB, iyC>>
scalars == <<fnsa, fnsa1, f02, iyAiyA, varA>>
loopvars == <<isi, isti, i>>
\* the arrays as objects: the number of the call under way, the arrays the
\* caller holds from earlier calls, the arrays isi and isti are bound to and
\* the arrays the call under way has stored into
heap == <<ncall, held, isiBuf, istiBuf, written>>
\* the parameters and the locals of pack; its nn, its out and its position in
\* the code are nn, out and pc, and kPack is its k
packvars == <<array, mask, kPack, afmask, afarray, dout>>
\* what pack has no part in
sobolOnly == <<args, nsa, iyA, iyB, iyC, scalars, loopvars, heap>>
\* the parameters and the locals of srrasa and srrasa_trans; their i and
\* their position in the code are i and pc, and nPts, jRow and kTr are their
\* n, j and k
srvars == <<xy, strata, nPts, num, rl, sWidth, sHeight, tl, xsteps, ysteps, rand_xy,
            jRow, kTr, o, goon, it, seedx_trans, seedy_trans, nwritten>>
\* nwritten counts, for every row of rand_xy, the assignments made to it
\* the file, the parameters, the locals and the value returned of
\* writenetcdf; callno numbers the calls made on the file and fentry is the
\* file as the call under way found it
ncvars == <<fhandle, vhandle, var, time, isdim, name, dims, attributes,
            fileattributes, vartype, typ, hand, ret, callno, fentry>>
\* what sobol_index and pack have no part in
others == <<srvars, ncvars>>
vars == <<args, pc, err, resolved, scalars, loopvars, out, heap, packvars, others>>

(* ------------------------------ bounds -------------------------------- *)

\* longest base sample (ya, yb, the rows of yc) and largest ns drawn
MaxNs == 2
\* most rows of yc (parameters) drawn
MaxK == 2
\* the model outputs drawn
Vals == {-1, 2}
\* most elements of yc drawn
MaxCells == 4
\* most calls made one after the other
MaxCalls == 2
\* most dimensions of the array and the mask of pack, the longest of them
\* and the most elements of an array
MaxRank == 3
MaxDim == 2
MaxSize == 4
\* most strata along an axis, most points of a stratum and most rows of
\* rand_xy drawn for srrasa
MaxStrata == 2
MaxN == 2
MaxRows == 8
\* most points of a transect, most transects and most passes of the while
\* loop for one transect drawn for srrasa_trans
MaxNum == 2
MaxTransects == 4
MaxTries == 2
\* most calls of writenetcdf made on a file
MaxNcCalls == 2

(* ------------------------- values of arguments ------------------------ *)

None == [tag |-> "none"]
Arr(v) == [tag |-> "arr", v |-> v]
Mat(v) == [tag |-> "mat", v |-> v]
Num(v) == [tag |-> "num", v |-> v]

\* x != None
Given(x) == x.tag # "none"

\* a local that no statement has assigned yet
Unset == [tag |-> "unset"]
\* an element of np.empty(n) that no statement has written yet
Uninit == [tag |-> "uninit"]

SeqsOfLen(n) == [1..n -> Vals]
Seqs(lo, hi) == UNION {SeqsOfLen(n) : n \in lo..hi}
Mats(k, m) == [1..k -> SeqsOfLen(m)]

(* ------------------------------ rationals ----------------------------- *)

Abs(x) == IF x < 0 THEN -x ELSE x
Sign(x) == IF x < 0 THEN -1 ELSE IF x > 0 THEN 1 ELSE 0

RECURSIVE GCD(_, _)
GCD(a, b) == IF b = 0 THEN a ELSE GCD(b, a % b)

\* n/d in lowest terms; d = 0 is inf (n = 1), -inf (n = -1) or nan (n = 0)
Norm(n, d) ==
    IF d = 0 THEN [n |-> Sign(n), d |-> 0]
    ELSE LET g == GCD(Abs(n), Abs(d))
         IN  [n |-> Sign(d) * (n \div g), d |-> Abs(d) \div g]

R(k) == [n |-> k, d |-> 1]
Finite(x) == x.d # 0
NaN == [n |-> 0, d |-> 0]

RMul(x, y) ==
    IF Finite(x) /\ Finite(y) THEN Norm(x.n * y.n, x.d * y.d)
    ELSE IF x.n = 0 \/ y.n = 0 THEN NaN
    ELSE [n |-> Sign(x.n) * Sign(y.n), d |-> 0]

RSub(x, y) ==
    IF Finite(x) /\ Finite(y) THEN Norm(x.n * y.d - y.n * x.d, x.d * y.d)
    ELSE IF ~Finite(x) /\ ~Finite(y)
         THEN (IF x.n # 0 /\ x.n = -y.n THEN x ELSE NaN)
    ELSE IF ~Finite(x) THEN x
    ELSE [n |-> -y.n, d |-> 0]

\* numpy float64 division: x/0 is inf, -inf or nan, never an exception
RDiv(x, y) ==
    IF Finite(x) /\ Finite(y) THEN
        (IF y.n = 0 THEN [n |-> Sign(x.n), d |-> 0]
         ELSE Norm(x.n * y.d, x.d * y.n))
    ELSE IF ~Finite(x) /\ ~Finite(y) THEN NaN
    ELSE IF ~Finite(x)
         THEN (IF x.n = 0 THEN NaN
               ELSE [n |-> x.n * (IF y.n < 0 THEN -1 ELSE 1), d |-> 0])
    ELSE (IF y.n = 0 THEN NaN ELSE R(0))

(* ---------------------------- long integers -------------------------- *)

\* The reference data of the docstring have four decimals and their products
\* leave the 32-bit integers; the estimator is computed on them with integers
\* of any length: a sign sg and a magnitude mag, the digits in base 10000,
\* lowest first, no leading zero.

RECURSIVE MTrim(_)
MTrim(m) ==
    IF m = <<>> THEN <<>>
    ELSE IF m[Len(m)] = 0 THEN MTrim(SubSeq(m, 1, Len(m) - 1))
    ELSE m

RECURSIVE MOfNat(_)
MOfNat(n) == IF n = 0 THEN <<>> ELSE <<n % 10000>> \o MOfNat(n \div 10000)

\* a + b + c, c the carry
RECURSIVE MAdd(_, _, _)
MAdd(a, b, c) ==
    IF a = <<>> /\ b = <<>> THEN (IF c = 0 THEN <<>> ELSE <<c>>)
    ELSE LET x == (IF a = <<>> THEN 0 ELSE a[1]) + (IF b = <<>> THEN 0 ELSE b[1]) + c
         IN  <<x % 10000>> \o MAdd(IF a = <<>> THEN <<>> ELSE Tail(a),
                                   IF b = <<>> THEN <<>> ELSE Tail(b),
                                   x \div 10000)

\* a - b - c for a >= b + c, c the borrow; leading zeros are left in
RECURSIVE MSub(_, _, _)
MSub(a, b, c) ==
    IF a = <<>> THEN <<>>
    ELSE LET x == a[1] - (IF b = <<>> THEN 0 ELSE b[1]) - c
         IN  <<(x + 10000) % 10000>> \o MSub(Tail(a),
                                             IF b = <<>> THEN <<>> ELSE Tail(b),
                                             IF x < 0 THEN 1 ELSE 0)

\* the sign of a - b, compared from digit k downwards when the lengths agree
RECURSIVE MCmpAt(_, _, _)
MCmpAt(a, b, k) ==
    IF k = 0 THEN 0
    ELSE IF a[k] # b[k] THEN (IF a[k] < b[k] THEN -1 ELSE 1)
    ELSE MCmpAt(a, b, k - 1)
MCmp(a, b) ==
    IF Len(a) # Len(b) THEN (IF Len(a) < Len(b) THEN -1 ELSE 1)
    ELSE MCmpAt(a, b, Len(a))

\* a * l + c for one digit l, c the carry
RECURSIVE MMulDigit(_, _, _)
MMulDigit(a, l, c) ==
    IF a = <<>> THEN (IF c = 0 THEN <<>> ELSE <<c>>)
    ELSE LET x == a[1] * l + c
         IN  <<x % 10000>> \o MMulDigit(Tail(a), l, x \div 10000)

MShift(m) == IF m = <<>> THEN <<>> ELSE <<0>> \o m

RECURSIVE MMul(_, _)
MMul(a, b) ==
    IF a = <<>> \/ b = <<>> THEN <<>>
    ELSE MAdd(MTrim(MMulDigit(a, b[1], 0)), MShift(MMul(a, Tail(b))), 0)

Long(n) == [sg |-> Sign(n), mag |-> MOfNat(Abs(n))]
LNeg(x) == [sg |-> -x.sg, mag |-> x.mag]
LAbs(x) == [sg |-> Abs(x.sg), mag |-> x.mag]
LMul(x, y) == [sg |-> x.sg * y.sg, mag |-> MMul(x.mag, y.mag)]
LAdd(x, y) ==
    IF x.sg = 0 THEN y
    ELSE IF y.sg = 0 THEN x
    ELSE IF x.sg = y.sg THEN [sg |-> x.sg, mag |-> MAdd(x.mag, y.mag, 0)]
    ELSE LET c == MCmp(x.mag, y.mag)
         IN  IF c = 0 THEN [sg |-> 0, mag |-> <<>>]
             ELSE IF c > 0 THEN [sg |-> x.sg, mag |-> MTrim(MSub(x.mag, y.mag, 0))]
             ELSE [sg |-> y.sg, mag |-> MTrim(MSub(y.mag, x.mag, 0))]
LSub(x, y) == LAdd(x, LNeg(y))
\* x <= y
LLeq(x, y) == LSub(x, y).sg <= 0

\* the floats as quotients n/d of two long integers, d > 0; d = 0 is inf,
\* -inf or nan as for Norm; the quotients are not reduced
Q(n) == [n |-> Long(n), d |-> Long(1)]
QFinite(x) == x.d.sg # 0
QMul(x, y) == [n |-> LMul(x.n, y.n), d |-> LMul(x.d, y.d)]
QAdd(x, y) ==
    IF x.d = y.d THEN [n |-> LAdd(x.n, y.n), d |-> x.d]
    ELSE [n |-> LAdd(LMul(x.n, y.d), LMul(y.n, x.d)), d |-> LMul(x.d, y.d)]
QSub(x, y) == QAdd(x, [n |-> LNeg(y.n), d |-> y.d])
\* numpy float64 division of finite numbers: x/0 is inf, -inf or nan
QDiv(x, y) ==
    IF y.n.sg = 0 THEN [n |-> Long(x.n.sg), d |-> Long(0)]
    ELSE [n |-> LMul(x.n, [sg |-> y.n.sg, mag |-> y.d.mag]),
          d |-> LMul(x.d, LAbs(y.n))]

(* --------------------------- numpy on arrays -------------------------- *)

RECURSIVE SumSeq(_)
SumSeq(x) == IF x = <<>> THEN 0 ELSE x[1] + SumSeq(Tail(x))

Min(a, b) == IF a < b THEN a ELSE b

\* x[lo:hi] of Python, 0 <= lo <= hi, on a sequence
Slice(x, lo, hi) == SubSeq(x, lo + 1, Min(hi, Len(x)))

\* x * y of two 1-D arrays: the shapes must agree or one of them be (1,)
Broadcastable(x, y) == Len(x) = Len(y) \/ Len(x) = 1 \/ Len(y) = 1
BLen(x, y) == IF Len(x) = 1 THEN Len(y) ELSE Len(x)
Times(x, y) ==
    [j \in 1..BLen(x, y) |->
        (IF Len(x) = 1 THEN x[1] ELSE x[j]) * (IF Len(y) = 1 THEN y[1] ELSE y[j])]

\* np.size(x), np.shape(x) has a second entry
Size(x) ==
    IF x.tag = "arr" THEN Len(x.v)
    ELSE IF x.tag = "mat" THEN Len(x.v) * Len(x.v[1])
    ELSE 1
Is2D(x) == x.tag = "mat"

(* ------------------- input resolution, lines 102-128 ------------------ *)

\* the check of the flags left out
NoOutputNever(psi, psti) == FALSE

\* line 103: (si==False) & (sti==False)
NoOutputChosen(psi, psti) == (psi = FALSE) /\ (psti = FALSE)

\* line 106: (s != None) & (ns != None) & (ya == None)
UsePacked(ps, pns, pya) == Given(ps) /\ Given(pns) /\ ~Given(pya)

\* line 116: (s != None) & (ns != None) & (ya != None)
UsePositional(ps, pns, pya) == Given(ps) /\ Given(pns) /\ Given(pya)

\* yc forgotten in the test of the second combination
InputGivenNoYc(ps, pns, pya, pyb, pyc) ==
    \/ Given(ps) /\ Given(pns) /\ Given(pya)
    \/ Given(pya) /\ Given(pyb)

\* line 114: one of the two accepted combinations is there
InputGiven(ps, pns, pya, pyb, pyc) ==
    \/ Given(ps) /\ Given(pns) /\ Given(pya)
    \/ Given(pya) /\ Given(pyb) /\ Given(pyc)

\* one subtracted instead of two
PackedNnMinus1(ss, pnsa) == (ss \div pnsa) - 1

\* line 109: nn = (ss/nsa)-2, floor division of Python 2
PackedNn(ss, pnsa) == (ss \div pnsa) - 2

\* line 110: s[0:nsa]
PackedA(ps, pnsa) == Slice(ps, 0, pnsa)

\* B taken from the start of s, as A is
PackedBAsA(ps, pnsa) == Slice(ps, 0, pnsa)

\* line 111: s[nsa:2*nsa]
PackedB(ps, pnsa) == Slice(ps, pnsa, 2 * pnsa)

\* line 112: s[2*nsa:]
PackedRest(ps, pnsa) == Slice(ps, 2 * pnsa, Len(ps))

\* a reshape that never refuses, as np.resize does
ReshapeAlways(flat, rows, cols, unknownToo) == TRUE

\* np.reshape(flat, (rows, cols)) is possible.  rows = -1 asks numpy to
\* infer the rows; whether a row count below -1 is refused or also inferred
\* depends on the numpy build (unknownToo).
ReshapeOk(flat, rows, cols, unknownToo) ==
    IF rows >= 0 THEN Len(flat) = rows * cols
    ELSE IF rows = -1 \/ unknownToo THEN Len(flat) % cols = 0
    ELSE FALSE

\* the reshape in column-major (Fortran) order
ReshapeF(flat, rows, cols) ==
    LET r == IF rows >= 0 THEN rows ELSE Len(flat) \div cols
    IN  [k \in 1..r |-> [j \in 1..cols |-> flat[(j - 1) * r + k]]]

\* np.reshape(flat, (rows, cols)): row-major (C order)
Reshape(flat, rows, cols) ==
    LET r == IF rows >= 0 THEN rows ELSE Len(flat) \div cols
    IN  [k \in 1..r |-> SubSeq(flat, (k - 1) * cols + 1, k * cols)]

\* only yb compared with ya
ShapeOkB(pnsa, pB, pC) == pnsa = Size(pB)

\* line 126: (nsa == np.size(iyB)) & (nsa == syc[1])
ShapeOk(pnsa, pB, pC) == (pnsa = Size(pB)) /\ (pnsa = Len(pC.v[1]))

\* line 128: nn = syc[0]
ExplicitNn(pC) == Len(pC.v)

\* lines 106-128 as a whole: the error raised, or the resolved locals
Failed(e) == [err |-> e, nsa |-> Unset, nn |-> Unset,
              iyA |-> Unset, iyB |-> Unset, iyC |-> Unset]

ResolvePacked(ps, pns, unknownToo) ==
    LET n == pns.v
        k == PackedNn(Len(ps.v), n)
        rest == PackedRest(ps.v, n)
    IN  IF ~ReshapeOk(rest, k, n, unknownToo) THEN Failed("ReshapeError")
        ELSE [err |-> "none", nsa |-> n, nn |-> k,
              iyA |-> PackedA(ps.v, n), iyB |-> PackedB(ps.v, n),
              iyC |-> Reshape(rest, k, n)]

ResolveExplicit(pA, pB, pC) ==
    LET n == Size(pA)
    IN  IF ~Is2D(pC) THEN Failed("IndexError")
        ELSE IF ~ShapeOk(n, pB, pC) THEN Failed("InvalidShape")
        ELSE [err |-> "none", nsa |-> n, nn |-> ExplicitNn(pC),
              iyA |-> pA.v, iyB |-> pB.v, iyC |-> pC.v]

\* the first two positional arguments taken as yb, ya
ResolveSwapped(ps, pns, pya, pyb, pyc, unknownToo) ==
    IF UsePacked(ps, pns, pya) THEN ResolvePacked(ps, pns, unknownToo)
    ELSE IF ~InputGiven(ps, pns, pya, pyb, pyc) THEN Failed("MissingInput")
    ELSE IF UsePositional(ps, pns, pya) THEN ResolveExplicit(pns, ps, pya)
    ELSE ResolveExplicit(pya, pyb, pyc)

\* lines 106-128: the mode of the call and the A, B, C, ns, k it resolves to
ResolveInput(ps, pns, pya, pyb, pyc, unknownToo) ==
    IF UsePacked(ps, pns, pya) THEN ResolvePacked(ps, pns, unknownToo)
    ELSE IF ~InputGiven(ps, pns, pya, pyb, pyc) THEN Failed("MissingInput")
    ELSE IF UsePositional(ps, pns, pya) THEN ResolveExplicit(ps, pns, pya)
    ELSE ResolveExplicit(pya, pyb, pyc)

(* ----------------------- estimator, lines 129-149 --------------------- *)

\* line 129: 1. / np.float(nsa); np.float is Python's float
Fnsa(pnsa) == Norm(1, pnsa)

\* the cross terms divided by ns, like f02, instead of ns-1
Fnsa1ByNs(pnsa) == Norm(1, pnsa)

\* line 130: 1. / np.float(nsa-1)
Fnsa1(pnsa) == Norm(1, pnsa - 1)

\* line 132: fnsa*np.sum(iyA*iyB)
F02(pfnsa, pA, pB) == RMul(pfnsa, R(SumSeq(Times(pA, pB))))

\* line 133: np.mean(iyA**2)
MeanSq(pA) == Norm(SumSeq(Times(pA, pA)), Len(pA))

\* line 134: iyAiyA - f02
VarA(pAA, pf02) == RSub(pAA, pf02)

\* the divisions done on numpy floats: 1/0 is inf and nothing is raised
ScalarsNumpyFloat(pA, pB, pnsa, pnn) ==
    LET none == [err |-> "none", fnsa |-> Unset, fnsa1 |-> Unset, f02 |-> Unset,
                 iyAiyA |-> Unset, varA |-> Unset]
        l129 == [none EXCEPT !.fnsa = Fnsa(pnsa)]
        l130 == [l129 EXCEPT !.fnsa1 = Fnsa1(pnsa)]
        l132 == [l130 EXCEPT !.f02 = F02(l129.fnsa, pA, pB)]
        l133 == [l132 EXCEPT !.iyAiyA = MeanSq(pA)]
        l134 == [l133 EXCEPT !.varA = VarA(l133.iyAiyA, l132.f02)]
    IN  IF ~Broadcastable(pA, pB) THEN [l130 EXCEPT !.err = "BroadcastError"]
        ELSE IF pnn < 0 THEN [l134 EXCEPT !.err = "NegativeDimensions"]
        ELSE l134

\* the arrays of lines 135, 136 allocated before the scalars are computed
ScalarsAllocFirst(pA, pB, pnsa, pnn) ==
    LET none == [err |-> "none", fnsa |-> Unset, fnsa1 |-> Unset, f02 |-> Unset,
                 iyAiyA |-> Unset, varA |-> Unset]
        l129 == [none EXCEPT !.fnsa = Fnsa(pnsa)]
        l130 == [l129 EXCEPT !.fnsa1 = Fnsa1(pnsa)]
        l132 == [l130 EXCEPT !.f02 = F02(l129.fnsa, pA, pB)]
        l133 == [l132 EXCEPT !.iyAiyA = MeanSq(pA)]
        l134 == [l133 EXCEPT !.varA = VarA(l133.iyAiyA, l132.f02)]
    IN  IF pnn < 0 THEN [none EXCEPT !.err = "NegativeDimensions"]
        ELSE IF pnsa = 0 THEN [none EXCEPT !.err = "ZeroDivisionError"]
        ELSE IF pnsa - 1 = 0 THEN [l129 EXCEPT !.err = "ZeroDivisionError"]
        ELSE IF ~Broadcastable(pA, pB) THEN [l130 EXCEPT !.err = "BroadcastError"]
        ELSE l134

\* lines 129-136: the error raised if any, and the scalars assigned before it
ScalarsOf(pA, pB, pnsa, pnn) ==
    LET none == [err |-> "none", fnsa |-> Unset, fnsa1 |-> Unset, f02 |-> Unset,
                 iyAiyA |-> Unset, varA |-> Unset]
        l129 == [none EXCEPT !.fnsa = Fnsa(pnsa)]
        l130 == [l129 EXCEPT !.fnsa1 = Fnsa1(pnsa)]
        l132 == [l130 EXCEPT !.f02 = F02(l129.fnsa, pA, pB)]
        l133 == [l132 EXCEPT !.iyAiyA = MeanSq(pA)]
        l134 == [l133 EXCEPT !.varA = VarA(l133.iyAiyA, l132.f02)]
    IN  IF pnsa = 0 THEN [none EXCEPT !.err = "ZeroDivisionError"]
        ELSE IF pnsa - 1 = 0 THEN [l129 EXCEPT !.err = "ZeroDivisionError"]
        ELSE IF ~Broadcastable(pA, pB) THEN [l130 EXCEPT !.err = "BroadcastError"]
        ELSE IF pnn < 0 THEN [l134 EXCEPT !.err = "NegativeDimensions"]
        ELSE l134

\* one element too many allocated
EmptyPlus1(flag, pnn) == IF flag THEN [k \in 1..(pnn + 1) |-> Uninit] ELSE Unset

\* lines 135, 136: np.empty(nn) when the index is asked for
Empty(flag, pnn) == IF flag THEN [k \in 1..pnn |-> Uninit] ELSE Unset

\* the first-order index clamped to [0, 1]
SiClamped(pfnsa1, pA, pCi, pf02, pvarA) ==
    LET iyAiyC == RMul(pfnsa1, R(SumSeq(Times(pA, pCi))))
        v == RDiv(RSub(iyAiyC, pf02), pvarA)
    IN  IF Finite(v) /\ v.n < 0 THEN R(0)
        ELSE IF Finite(v) /\ v.n > v.d THEN R(1)
        ELSE v

\* lines 140, 141: first-order index of one row of iyC
SiOf(pfnsa1, pA, pCi, pf02, pvarA) ==
    LET iyAiyC == RMul(pfnsa1, R(SumSeq(Times(pA, pCi))))
    IN  RDiv(RSub(iyAiyC, pf02), pvarA)

\* the total index without its complement, 1. - ... left out
StiNoComplement(pfnsa1, pB, pCi, pf02, pvarA) ==
    LET iyBiyC == RMul(pfnsa1, R(SumSeq(Times(pB, pCi))))
    IN  RDiv(RSub(iyBiyC, pf02), pvarA)

\* lines 143, 144: total index of one row of iyC
StiOf(pfnsa1, pB, pCi, pf02, pvarA) ==
    LET iyBiyC == RMul(pfnsa1, R(SumSeq(Times(pB, pCi))))
    IN  RSub(R(1), RDiv(RSub(iyBiyC, pf02), pvarA))

\* both arrays returned whatever the flags
OutOfBoth(psi, psti, pisi, pisti) == <<pisi, pisti>>

\* the total index put first
OutOfSwapped(psi, psti, pisi, pisti) ==
    (IF psti THEN <<pisti>> ELSE <<>>) \o (IF psi THEN <<pisi>> ELSE <<>>)

\* lines 146-148: the list returned
OutOf(psi, psti, pisi, pisti) ==
    (IF psi THEN <<pisi>> ELSE <<>>) \o (IF psti THEN <<pisti>> ELSE <<>>)

(* --------------------------- the arguments ---------------------------- *)

NoArrays == [s |-> None, ns |-> None, ya |-> None, yb |-> None, yc |-> None]

AllMats ==
    UNION {Mats(km[1], km[2]) :
             km \in {x \in (1..MaxK) \X (1..MaxNs) : x[1] * x[2] <= MaxCells}}

\* the arguments are those of the call c
Called(c) == s = c.s /\ ns = c.ns /\ ya = c.ya /\ yb = c.yb /\ yc = c.yc

\* sobol_index(ya=a, yb=b, yc=c), the lengths agreeing or not
ExplicitCall(a, b, c) == [NoArrays EXCEPT !.ya = Arr(a), !.yb = Arr(b), !.yc = Mat(c)]
InitExplicit ==
    \E a \in Seqs(1, MaxNs), b \in Seqs(1, MaxNs), c \in AllMats :
        Called(ExplicitCall(a, b, c))

\* sobol_index(a, b, c): the first three parameters are s, ns, ya
PositionalCall(a, b, c) == [NoArrays EXCEPT !.s = Arr(a), !.ns = Arr(b), !.ya = Mat(c)]
InitPositional ==
    \E a \in Seqs(1, MaxNs), b \in Seqs(1, MaxNs), c \in AllMats :
        Called(PositionalCall(a, b, c))

\* sobol_index(s=x, ns=n), the length of x a multiple of n or not, for at
\* most MaxK parameters, len(x)/n - 2 <= MaxK, and MaxCells elements after
\* the 2*n of A and B
PackedCall(x, n) == [NoArrays EXCEPT !.s = Arr(x), !.ns = Num(n)]
InitPacked ==
    \E n \in 1..MaxNs :
        \E x \in Seqs(1, Min(n * (MaxK + 3) - 1, MaxCells + 2 * MaxNs)) :
            Called(PackedCall(x, n))

\* every way of leaving arguments out, on one-element data
PartialCalls ==
    [s : {None} \cup {Arr(x) : x \in SeqsOfLen(1)},
     ns : {None, Num(1)},
     ya : {None} \cup {Arr(x) : x \in SeqsOfLen(1)},
     yb : {None} \cup {Arr(x) : x \in SeqsOfLen(1)},
     yc : {None} \cup {Mat(x) : x \in Mats(1, 1)}]
InitPartial == \E c \in PartialCalls : Called(c)

(* --------------------------- one call, stepwise ----------------------- *)

\* the arrays the caller passes in
InputBuffers == {[buf |-> a, call |-> 0] : a \in {"s", "ns", "ya", "yb", "yc"}}

\* isi bound to the array of an argument instead of a new one
BufferOfArgument(which, n) == [buf |-> "ya", call |-> 0]

\* lines 135, 136: np.empty allocates a new array at every call
NewBuffer(which, n) == [buf |-> which, call |-> n]

\* the frame of a call at its entry: the flags, no local bound yet
\* srrasa and srrasa_trans not called
NoSrrasa ==
    /\ xy = Unset /\ strata = Unset /\ nPts = Unset /\ num = Unset /\ rl = Unset
    /\ sWidth = Unset /\ sHeight = Unset /\ tl = Unset /\ xsteps = Unset /\ ysteps = Unset
    /\ rand_xy = Unset /\ jRow = Unset /\ kTr = Unset /\ o = Unset
    /\ goon = Unset /\ it = Unset /\ seedx_trans = Unset /\ seedy_trans = Unset
    /\ nwritten = Unset

\* writenetcdf not called
NoNetcdf ==
    /\ fhandle = Unset /\ vhandle = Unset /\ var = Unset /\ time = Unset
    /\ isdim = Unset /\ name = Unset /\ dims = Unset /\ attributes = Unset
    /\ fileattributes = Unset /\ vartype = Unset /\ typ = Unset /\ hand = Unset
    /\ ret = Unset /\ callno = Unset /\ fentry = Unset

\* none of the other functions of the package called
Idle == NoSrrasa /\ NoNetcdf

Entry ==
    /\ si \in BOOLEAN
    /\ sti \in BOOLEAN
    /\ pc = "check"
    /\ err = "none"
    /\ nsa = Unset /\ nn = Unset /\ iyA = Unset /\ iyB = Unset /\ iyC = Unset
    /\ fnsa = Unset /\ fnsa1 = Unset /\ f02 = Unset /\ iyAiyA = Unset /\ varA = Unset
    /\ isi = Unset /\ isti = Unset /\ i = Unset
    /\ out = Unset
    /\ isiBuf = Unset /\ istiBuf = Unset /\ written = {}
    /\ array = Unset /\ mask = Unset /\ kPack = Unset
    /\ afmask = Unset /\ afarray = Unset /\ dout = Unset
    /\ Idle

Init ==
    /\ InitExplicit \/ InitPositional \/ InitPacked \/ InitPartial
    /\ Entry
    /\ ncall = 1 /\ held = {}

\* lines 103, 104
CheckOutput ==
    /\ pc = "check"
    /\ IF NoOutputChosen(si, sti)
       THEN pc' = "error" /\ err' = "NoOutput"
       ELSE pc' = "resolve" /\ err' = err
    /\ UNCHANGED <<args, resolved, scalars, loopvars, out, heap, packvars, others>>

\* lines 106-128
Resolve ==
    /\ pc = "resolve"
    /\ \E unknownToo \in BOOLEAN :
          LET r == ResolveInput(s, ns, ya, yb, yc, unknownToo)
          IN  /\ err' = r.err
              /\ pc' = IF r.err = "none" THEN "scalars" ELSE "error"
              /\ nsa' = r.nsa /\ nn' = r.nn
              /\ iyA' = r.iyA /\ iyB' = r.iyB /\ iyC' = r.iyC
    /\ UNCHANGED <<args, scalars, loopvars, out, heap, packvars, others>>

\* lines 129-136
Scalars ==
    /\ pc = "scalars"
    /\ LET r == ScalarsOf(iyA, iyB, nsa, nn)
       IN  /\ err' = r.err
           /\ fnsa' = r.fnsa /\ fnsa1' = r.fnsa1 /\ f02' = r.f02
           /\ iyAiyA' = r.iyAiyA /\ varA' = r.varA
           /\ IF r.err = "none"
              THEN /\ pc' = "loop"
                   /\ isi' = Empty(si, nn)
                   /\ isti' = Empty(sti, nn)
                   /\ isiBuf' = IF si THEN NewBuffer("isi", ncall) ELSE Unset
                   /\ istiBuf' = IF sti THEN NewBuffer("isti", ncall) ELSE Unset
                   /\ i' = 0
              ELSE /\ pc' = "error"
                   /\ UNCHANGED <<loopvars, isiBuf, istiBuf>>
    /\ UNCHANGED <<args, resolved, out, ncall, held, written, packvars, others>>

\* lines 137-144, one iteration of the loop; iyC[i,:] is row i+1 of iyC
LoopStep ==
    /\ pc = "loop"
    /\ i < nn
    /\ IF i + 1 > Len(iyC)
       THEN /\ pc' = "error" /\ err' = "IndexError"
            /\ UNCHANGED <<loopvars, written>>
       ELSE IF ~Broadcastable(iyA, iyC[i + 1]) \/ ~Broadcastable(iyB, iyC[i + 1])
       THEN /\ pc' = "error" /\ err' = "BroadcastError"
            /\ UNCHANGED <<loopvars, written>>
       ELSE LET iyCi == iyC[i + 1]
            IN  /\ isi' = IF si THEN [isi EXCEPT ![i + 1] = SiOf(fnsa1, iyA, iyCi, f02, varA)]
                          ELSE isi
                /\ isti' = IF sti THEN [isti EXCEPT ![i + 1] = StiOf(fnsa1, iyB, iyCi, f02, varA)]
                           ELSE isti
                /\ written' = written \cup (IF si THEN {isiBuf} ELSE {})
                                       \cup (IF sti THEN {istiBuf} ELSE {})
                /\ i' = i + 1
                /\ UNCHANGED <<pc, err>>
    /\ UNCHANGED <<args, resolved, scalars, out, ncall, held, isiBuf, istiBuf, packvars, others>>

\* lines 146-149, after the last iteration
Return ==
    /\ pc = "loop"
    /\ i >= nn
    /\ out' = OutOf(si, sti, isi, isti)
    /\ pc' = "done"
    /\ UNCHANGED <<args, err, resolved, scalars, loopvars, heap, packvars, others>>

Next == CheckOutput \/ Resolve \/ Scalars \/ LoopStep \/ Return

Spec == Init /\ [][Next]_vars

(* ------------------- the iterations in any order --------------------- *)

\* line 138: iyCi = iyC[i,:], row k counted from 1
RowOf(pC, k) == pC[k]

\* an iteration that takes over the index of an iteration run before it
IsiCarried(pisi, k, pfnsa1, pA, pC, pf02, pvarA) ==
    LET ran == {m \in 1..Len(pisi) : pisi[m] # Uninit}
    IN  [pisi EXCEPT ![k] = IF ran = {}
                            THEN SiOf(pfnsa1, pA, RowOf(pC, k), pf02, pvarA)
                            ELSE pisi[CHOOSE m \in ran : TRUE]]

\* lines 140, 141 of the iteration of row k: isi after isi[k] is assigned
IsiAfter(pisi, k, pfnsa1, pA, pC, pf02, pvarA) ==
    [pisi EXCEPT ![k] = SiOf(pfnsa1, pA, RowOf(pC, k), pf02, pvarA)]

\* lines 143, 144 of the iteration of row k: isti after isti[k] is assigned
IstiAfter(pisti, k, pfnsa1, pB, pC, pf02, pvarA) ==
    [pisti EXCEPT ![k] = StiOf(pfnsa1, pB, RowOf(pC, k), pf02, pvarA)]

\* lines 138-141 for any row whose isi[k] is not assigned yet; i counts the
\* iterations that have assigned all they have to
RunSi ==
    /\ pc = "loop"
    /\ si
    /\ \E k \in 1..nn :
          /\ isi[k] = Uninit
          /\ IF k > Len(iyC)
             THEN /\ pc' = "error" /\ err' = "IndexError"
                  /\ UNCHANGED <<loopvars, written>>
             ELSE IF ~Broadcastable(iyA, RowOf(iyC, k))
             THEN /\ pc' = "error" /\ err' = "BroadcastError"
                  /\ UNCHANGED <<loopvars, written>>
             ELSE /\ isi' = IsiAfter(isi, k, fnsa1, iyA, iyC, f02, varA)
                  /\ written' = written \cup {isiBuf}
                  /\ i' = IF ~sti \/ isti[k] # Uninit THEN i + 1 ELSE i
                  /\ UNCHANGED <<pc, err, isti>>
    /\ UNCHANGED <<args, resolved, scalars, out, ncall, held, isiBuf, istiBuf, packvars, others>>

\* lines 138, 142-144 for any row whose isti[k] is not assigned yet
RunSti ==
    /\ pc = "loop"
    /\ sti
    /\ \E k \in 1..nn :
          /\ isti[k] = Uninit
          /\ IF k > Len(iyC)
             THEN /\ pc' = "error" /\ err' = "IndexError"
                  /\ UNCHANGED <<loopvars, written>>
             ELSE IF ~Broadcastable(iyB, RowOf(iyC, k))
             THEN /\ pc' = "error" /\ err' = "BroadcastError"
                  /\ UNCHANGED <<loopvars, written>>
             ELSE /\ isti' = IstiAfter(isti, k, fnsa1, iyB, iyC, f02, varA)
                  /\ written' = written \cup {istiBuf}
                  /\ i' = IF ~si \/ isi[k] # Uninit THEN i + 1 ELSE i
                  /\ UNCHANGED <<pc, err, isi>>
    /\ UNCHANGED <<args, resolved, scalars, out, ncall, held, isiBuf, istiBuf, packvars, others>>

NextAnyOrder == CheckOutput \/ Resolve \/ Scalars \/ RunSi \/ RunSti \/ Return

SpecAnyOrder == Init /\ [][NextAnyOrder]_vars

(* --------------------------- calls in sequence ------------------------ *)

\* the calls a caller makes one after the other: the three ways of passing
\* two model outputs per sample and one parameter, no argument at all, and a
\* packed array too short for its ns
SeqCalls ==
    {ExplicitCall(<<-1, 2>>, b, <<c>>) : b \in SeqsOfLen(2), c \in SeqsOfLen(2)}
    \cup {PositionalCall(<<-1, 2>>, b, <<c>>) : b \in SeqsOfLen(2), c \in SeqsOfLen(2)}
    \cup {PackedCall(<<-1, 2>> \o b \o c, 2) : b \in SeqsOfLen(2), c \in SeqsOfLen(2)}
    \cup {NoArrays, PackedCall(<<2, 2, 2>>, 2)}

\* the arrays the call under way returns: isi and isti as asked for
Returned ==
    (IF si THEN {isiBuf} ELSE {}) \cup (IF sti THEN {istiBuf} ELSE {})

InitCalls ==
    /\ \E c \in SeqCalls : Called(c)
    /\ Entry
    /\ ncall = 1 /\ held = {}

\* the call under way has ended and the caller makes the next one: the
\* caller keeps the list returned, and the new call starts with the frame
\* of line 4, no local bound and the module holding no state
NewCall ==
    /\ pc \in {"done", "error"}
    /\ ncall < MaxCalls
    /\ ncall' = ncall + 1
    /\ held' = held \cup (IF pc = "done" THEN Returned ELSE {})
    /\ \E c \in SeqCalls :
          s' = c.s /\ ns' = c.ns /\ ya' = c.ya /\ yb' = c.yb /\ yc' = c.yc
    /\ si' \in BOOLEAN
    /\ sti' \in BOOLEAN
    /\ pc' = "check"
    /\ err' = "none"
    /\ nsa' = Unset /\ nn' = Unset /\ iyA' = Unset /\ iyB' = Unset /\ iyC' = Unset
    /\ fnsa' = Unset /\ fnsa1' = Unset /\ f02' = Unset /\ iyAiyA' = Unset
    /\ varA' = Unset
    /\ isi' = Unset /\ isti' = Unset /\ i' = Unset
    /\ out' = Unset
    /\ isiBuf' = Unset /\ istiBuf' = Unset /\ written' = {}
    /\ UNCHANGED <<packvars, others>>

NextCalls == Next \/ NewCall

SpecCalls == InitCalls /\ [][NextCalls]_vars

(* --------------------------- one call, as a whole --------------------- *)

\* the call c with the flags psi, psti, run to its end: the error raised or
\* the list returned
SobolIndex(c, psi, psti, unknownToo) ==
    LET fail(e) == [err |-> e, out |-> Unset]
        r == ResolveInput(c.s, c.ns, c.ya, c.yb, c.yc, unknownToo)
        q == ScalarsOf(r.iyA, r.iyB, r.nsa, r.nn)
        row(k) == r.iyC[k]
        bad(k) == \/ k > Len(r.iyC)
                  \/ ~Broadcastable(r.iyA, row(k))
                  \/ ~Broadcastable(r.iyB, row(k))
        risi == [k \in 1..r.nn |-> SiOf(q.fnsa1, r.iyA, row(k), q.f02, q.varA)]
        risti == [k \in 1..r.nn |-> StiOf(q.fnsa1, r.iyB, row(k), q.f02, q.varA)]
    IN  IF NoOutputChosen(psi, psti) THEN fail("NoOutput")
        ELSE IF r.err # "none" THEN fail(r.err)
        ELSE IF q.err # "none" THEN fail(q.err)
        ELSE IF \E k \in 1..r.nn : bad(k)
             THEN fail(IF \E k \in 1..r.nn : k > Len(r.iyC)
                       THEN "IndexError" ELSE "BroadcastError")
        ELSE [err |-> "none",
              out |-> OutOf(psi, psti, IF psi THEN risi ELSE Unset,
                                       IF psti THEN risti ELSE Unset)]

\* the arguments of the call under way
CurCall == [s |-> s, ns |-> ns, ya |-> ya, yb |-> yb, yc |-> yc]

\* np.ravel(m): the rows of m one after the other
RECURSIVE Ravel(_)
Ravel(m) == IF m = <<>> THEN <<>> ELSE m[1] \o Ravel(Tail(m))

\* np.concatenate((a, b, np.ravel(c))) of the docstring, with ns = np.size(a)
Packed(a, b, c) == PackedCall(a \o b \o Ravel(c), Len(a))

(* ------------------ the reference data of the docstring --------------- *)

\* lines 50-61: iya, iyb and the ten rows of iyc, in ten-thousandths
IYA == <<-2570921, -1528434, -687691, -1298188, -899667>>
IYB == <<-1743796, -1473429, -1192169, -1027477, -1602185>>
IYC ==
    <<<<-1012691, -1395885, -1276342, -1069594, -1158792>>,
       <<-1300901, -1548311, -243989, -1334675, -1690250>>,
       <<-1809130, -1407924, -1273886, -932011, -1197757>>,
       <<-1712342, -1467013, -1189833, -1025973, -1635437>>,
       <<-2552163, -1798984, -1315042, -1037205, -1674869>>,
       <<-2587999, -1257803, -1165700, -1293884, -1576105>>,
       <<-1699223, -1639877, -1203642, -898831, -1603463>>,
       <<-1739842, -1447646, -1193019, -953019, -1821460>>,
       <<-1932946, -1550912, -1414387, -1073154, -1714209>>,
       <<-1743416, -1473517, -1192144, -1027560, -1602369>>>>

\* lines 64-68: the isi1 and isti1 printed, in units of 1e-8
ISI1 ==
    <<-17246466, 68527704, 134420855, 158064210, 379371374,
      332517435, 161709097, 167219243, 235600424, 163096441>>
ISTI1 ==
    <<97189473, 48209728, -7413016, -56043738, -227993476,
      -164234972, -61288843, -75492424, -131113697, -57241965>>

\* the float of an array element given in ten-thousandths
Dec(v) == [n |-> Long(v), d |-> Long(10000)]

RECURSIVE QSum(_)
QSum(x) == IF x = <<>> THEN Q(0) ELSE QAdd(x[1], QSum(Tail(x)))

\* x * y of two 1-D arrays of ten-thousandths
TimesDec(x, y) ==
    [j \in 1..BLen(x, y) |->
        QMul(Dec(IF Len(x) = 1 THEN x[1] ELSE x[j]),
             Dec(IF Len(y) = 1 THEN y[1] ELSE y[j]))]

\* line 129
FnsaDec(pnsa) == QDiv(Q(1), Q(pnsa))

\* the cross terms divided by ns instead of ns-1
Fnsa1DecByNs(pnsa) == QDiv(Q(1), Q(pnsa))

\* line 130
Fnsa1Dec(pnsa) == QDiv(Q(1), Q(pnsa - 1))

\* lines 129-136 on ten-thousandths
ScalarsOfDec(pA, pB, pnsa, pnn) ==
    LET none == [err |-> "none", fnsa |-> Unset, fnsa1 |-> Unset, f02 |-> Unset,
                 iyAiyA |-> Unset, varA |-> Unset]
        l129 == [none EXCEPT !.fnsa = FnsaDec(pnsa)]
        l130 == [l129 EXCEPT !.fnsa1 = Fnsa1Dec(pnsa)]
        l132 == [l130 EXCEPT !.f02 = QMul(l129.fnsa, QSum(TimesDec(pA, pB)))]
        l133 == [l132 EXCEPT !.iyAiyA = QDiv(QSum(TimesDec(pA, pA)), Q(Len(pA)))]
        l134 == [l133 EXCEPT !.varA = QSub(l133.iyAiyA, l132.f02)]
    IN  IF pnsa = 0 THEN [none EXCEPT !.err = "ZeroDivisionError"]
        ELSE IF pnsa - 1 = 0 THEN [l129 EXCEPT !.err = "ZeroDivisionError"]
        ELSE IF ~Broadcastable(pA, pB) THEN [l130 EXCEPT !.err = "BroadcastError"]
        ELSE IF pnn < 0 THEN [l134 EXCEPT !.err = "NegativeDimensions"]
        ELSE l134

\* lines 140, 141 on ten-thousandths
SiOfDec(pfnsa1, pA, pCi, pf02, pvarA) ==
    LET iyAiyC == QMul(pfnsa1, QSum(TimesDec(pA, pCi)))
    IN  QDiv(QSub(iyAiyC, pf02), pvarA)

\* lines 143, 144 on ten-thousandths
StiOfDec(pfnsa1, pB, pCi, pf02, pvarA) ==
    LET iyBiyC == QMul(pfnsa1, QSum(TimesDec(pB, pCi)))
    IN  QSub(Q(1), QDiv(QSub(iyBiyC, pf02), pvarA))

\* the calls of the docstring, lines 62, 70, 77-92, on the first k
\* parameters of the data set
GoldenCalls ==
    UNION {{PositionalCall(IYA, IYB, SubSeq(IYC, 1, k)),
            ExplicitCall(IYA, IYB, SubSeq(IYC, 1, k)),
            Packed(IYA, IYB, SubSeq(IYC, 1, k))} : k \in 1..Len(IYC)}

InitGolden ==
    /\ \E c \in GoldenCalls : Called(c)
    /\ Entry
    /\ ncall = 1 /\ held = {}

\* lines 129-136
ScalarsDec ==
    /\ pc = "scalars"
    /\ LET r == ScalarsOfDec(iyA, iyB, nsa, nn)
       IN  /\ err' = r.err
           /\ fnsa' = r.fnsa /\ fnsa1' = r.fnsa1 /\ f02' = r.f02
           /\ iyAiyA' = r.iyAiyA /\ varA' = r.varA
           /\ IF r.err = "none"
              THEN /\ pc' = "loop"
                   /\ isi' = Empty(si, nn)
                   /\ isti' = Empty(sti, nn)
                   /\ isiBuf' = IF si THEN NewBuffer("isi", ncall) ELSE Unset
                   /\ istiBuf' = IF sti THEN NewBuffer("isti", ncall) ELSE Unset
                   /\ i' = 0
              ELSE /\ pc' = "error"
                   /\ UNCHANGED <<loopvars, isiBuf, istiBuf>>
    /\ UNCHANGED <<args, resolved, out, ncall, held, written, packvars, others>>

\* lines 137-144, one iteration
LoopStepDec ==
    /\ pc = "loop"
    /\ i < nn
    /\ IF i + 1 > Len(iyC)
       THEN /\ pc' = "error" /\ err' = "IndexError"
            /\ UNCHANGED <<loopvars, written>>
       ELSE IF ~Broadcastable(iyA, iyC[i + 1]) \/ ~Broadcastable(iyB, iyC[i + 1])
       THEN /\ pc' = "error" /\ err' = "BroadcastError"
            /\ UNCHANGED <<loopvars, written>>
       ELSE LET iyCi == iyC[i + 1]
            IN  /\ isi' = IF si THEN [isi EXCEPT ![i + 1] = SiOfDec(fnsa1, iyA, iyCi, f02, varA)]
                          ELSE isi
                /\ isti' = IF sti THEN [isti EXCEPT ![i + 1] = StiOfDec(fnsa1, iyB, iyCi, f02, varA)]
                           ELSE isti
                /\ written' = written \cup (IF si THEN {isiBuf} ELSE {})
                                       \cup (IF sti THEN {istiBuf} ELSE {})
                /\ i' = i + 1
                /\ UNCHANGED <<pc, err>>
    /\ UNCHANGED <<args, resolved, scalars, out, ncall, held, isiBuf, istiBuf, packvars, others>>

NextGolden == CheckOutput \/ Resolve \/ ScalarsDec \/ LoopStepDec \/ Return

SpecGolden == InitGolden /\ [][NextGolden]_vars

(* ------------------------- pack, src/ufz/pack.py ---------------------- *)

\* An ndarray is its shape and its elements by index, the indices counted
\* from 0: [shape |-> <<2, 3>>, at |-> [<<0, 0>> |-> .., <<0, 1>> |-> ..]].

\* x.size of the shape sh
RECURSIVE Prod(_)
Prod(sh) == IF sh = <<>> THEN 1 ELSE sh[1] * Prod(Tail(sh))

RECURSIVE Indices(_)
Indices(sh) ==
    IF sh = <<>> THEN {<<>>}
    ELSE {<<x>> \o t : x \in 0..(sh[1] - 1), t \in Indices(Tail(sh))}

\* the index of the p-th element, p from 1, the first index running fastest
RECURSIVE UnravelF(_, _)
UnravelF(sh, p) ==
    IF sh = <<>> THEN <<>>
    ELSE <<(p - 1) % sh[1]>> \o UnravelF(Tail(sh), ((p - 1) \div sh[1]) + 1)

\* the index of the p-th element in C order, the last index running fastest
RECURSIVE UnravelC(_, _)
UnravelC(sh, p) ==
    IF sh = <<>> THEN <<>>
    ELSE LET rest == Prod(Tail(sh))
         IN  <<(p - 1) \div rest>> \o UnravelC(Tail(sh), ((p - 1) % rest) + 1)

\* the elements in column-major order, as the comment of line 115 has it
RavelF(a) == [p \in 1..Prod(a.shape) |-> a.at[UnravelF(a.shape, p)]]

\* lines 115, 116: x.ravel() is in C order whatever the comment says
RavelC(a) == [p \in 1..Prod(a.shape) |-> a.at[UnravelC(a.shape, p)]]

\* x[k] of Python for k < 0, on a sequence
FromEnd(x, k) == x[Len(x) + k + 1]

\* lines 110-112 compared from the first dimension instead of the last
DimOkLeading(dm, da, k) == dm[-k] = da[-k]

\* line 112: dmask[k] == darray[k]
DimOk(dm, da, k) == FromEnd(dm, k) = FromEnd(da, k)

\* line 120: afmask[k*nmask:(k+1)*nmask] = fmask[:]
Tiled(pafmask, pfmask, k) ==
    [p \in 1..Len(pafmask) |->
        IF k * Len(pfmask) < p /\ p <= (k + 1) * Len(pfmask)
        THEN pfmask[p - k * Len(pfmask)] ELSE pafmask[p]]

\* line 125: farray[afmask], the elements of farray where afmask is true
RECURSIVE Where(_, _)
Where(pfarray, pafmask) ==
    IF pfarray = <<>> THEN <<>>
    ELSE (IF pafmask[1] THEN <<pfarray[1]>> ELSE <<>>)
         \o Where(Tail(pfarray), Tail(pafmask))

\* the size of the mask appended instead of the number of its true elements
NnmaskSize(m) == Prod(m.shape)

\* line 131: mask.sum()
Nnmask(m) == Cardinality({x \in Indices(m.shape) : m.at[x]})

\* the place, from 1, of the index x in C order
RECURSIVE PosC(_, _)
PosC(sh, x) ==
    IF sh = <<>> THEN 1 ELSE x[1] * Prod(Tail(sh)) + PosC(Tail(sh), Tail(x))

\* line 133: np.reshape(flat, sh) of a 1-D array, in C order
ReshapeC(flat, sh) ==
    [shape |-> sh, at |-> [x \in Indices(sh) |-> flat[PosC(sh, x)]]]

\* the shapes drawn: at most MaxRank dimensions of 0 to MaxDim, at most
\* MaxSize elements
Shapes ==
    {sh \in UNION {[1..r -> 0..MaxDim] : r \in 0..MaxRank} : Prod(sh) <= MaxSize}

\* the arrays of a shape: the elements numbered in C order, upwards from 1
\* or downwards from -1
Arrays(sh) ==
    {[shape |-> sh, at |-> [x \in Indices(sh) |-> f * PosC(sh, x)]] : f \in {1, -1}}

\* the boolean arrays of a shape
Masks(sh) == {[shape |-> sh, at |-> b] : b \in [Indices(sh) -> BOOLEAN]}

\* the locals read off the parameters, lines 100-105, 115, 116
Dmask == mask.shape
Ndmask == Len(mask.shape)
Nmask == Prod(mask.shape)
Darray == array.shape
Ndarray == Len(array.shape)
Narray == Prod(array.shape)
Farray == RavelC(array)
Fmask == RavelC(mask)

\* sobol_index is not running
NoSobol ==
    /\ Called(NoArrays) /\ si = TRUE /\ sti = TRUE
    /\ nsa = Unset /\ iyA = Unset /\ iyB = Unset /\ iyC = Unset
    /\ fnsa = Unset /\ fnsa1 = Unset /\ f02 = Unset /\ iyAiyA = Unset /\ varA = Unset
    /\ isi = Unset /\ isti = Unset /\ i = Unset
    /\ isiBuf = Unset /\ istiBuf = Unset /\ written = {}
    /\ ncall = 0 /\ held = {}

\* pack(array, mask) at its entry, the shapes fitting or not
InitPack ==
    /\ \E sa \in Shapes, sm \in Shapes :
          array \in Arrays(sa) /\ mask \in Masks(sm)
    /\ pc = "assert"
    /\ err = "none"
    /\ kPack = Unset /\ afmask = Unset /\ nn = Unset
    /\ afarray = Unset /\ dout = Unset /\ out = Unset
    /\ NoSobol
    /\ Idle

\* line 108
AssertRank ==
    /\ pc = "assert"
    /\ IF Ndarray >= Ndmask
       THEN pc' = "dims" /\ kPack' = 0 /\ err' = err
       ELSE pc' = "error" /\ err' = "AssertionError" /\ kPack' = kPack
    /\ UNCHANGED <<array, mask, afmask, nn, afarray, dout, out, sobolOnly, others>>

\* lines 110-112, one iteration
AssertDim ==
    /\ pc = "dims"
    /\ kPack > -Ndmask
    /\ kPack' = kPack - 1
    /\ IF DimOk(Dmask, Darray, kPack - 1)
       THEN UNCHANGED <<pc, err>>
       ELSE pc' = "error" /\ err' = "AssertionError"
    /\ UNCHANGED <<array, mask, afmask, nn, afarray, dout, out, sobolOnly, others>>

\* lines 115-119, after the last iteration: np.empty leaves in afmask
\* whatever the memory held, and narray // nmask divides Python integers
Flatten ==
    /\ pc = "dims"
    /\ ~(kPack > -Ndmask)
    /\ \E junk \in [1..Narray -> BOOLEAN] : afmask' = junk
    /\ IF Nmask = 0
       THEN pc' = "error" /\ err' = "ZeroDivisionError" /\ UNCHANGED <<nn, kPack>>
       ELSE pc' = "tile" /\ nn' = Narray \div Nmask /\ kPack' = 0 /\ err' = err
    /\ UNCHANGED <<array, mask, afarray, dout, out, sobolOnly, others>>

\* lines 120-122, one iteration
Tile ==
    /\ pc = "tile"
    /\ kPack < nn
    /\ afmask' = Tiled(afmask, Fmask, kPack)
    /\ kPack' = kPack + 1
    /\ UNCHANGED <<array, mask, pc, err, nn, afarray, dout, out, sobolOnly, others>>

\* lines 125-127, after the last iteration
Select ==
    /\ pc = "tile"
    /\ ~(kPack < nn)
    /\ afarray' = Where(Farray, afmask)
    /\ dout' = Darray
    /\ kPack' = 0
    /\ pc' = "del"
    /\ UNCHANGED <<array, mask, err, nn, afmask, out, sobolOnly, others>>

\* lines 128-130, one iteration
DelDim ==
    /\ pc = "del"
    /\ kPack < Ndmask
    /\ dout' = SubSeq(dout, 1, Len(dout) - 1)
    /\ kPack' = kPack + 1
    /\ UNCHANGED <<array, mask, pc, err, nn, afmask, afarray, out, sobolOnly, others>>

\* lines 131-135, after the last iteration; np.reshape raises ValueError when
\* the sizes differ
Finish ==
    /\ pc = "del"
    /\ ~(kPack < Ndmask)
    /\ dout' = Append(dout, Nnmask(mask))
    /\ IF Len(afarray) = Prod(dout')
       THEN pc' = "done" /\ out' = ReshapeC(afarray, dout') /\ err' = err
       ELSE pc' = "error" /\ err' = "ReshapeError" /\ out' = out
    /\ UNCHANGED <<array, mask, kPack, nn, afmask, afarray, sobolOnly, others>>

NextPack ==
    AssertRank \/ AssertDim \/ Flatten \/ Tile \/ Select \/ DelDim \/ Finish

SpecPack == InitPack /\ [][NextPack]_vars


(* --------------------------- srrasa, src/srrasa.py -------------------- *)

\* The coordinates are floats, here the exact quotients of integers; the
\* rounding of the float64 operations is left out.

RNeg(x) == [n |-> -x.n, d |-> x.d]
RAdd(x, y) == RSub(x, RNeg(y))

\* x < y and x > y of floats: False when either side is nan
RLt(x, y) ==
    IF Finite(x) /\ Finite(y) THEN x.n * y.d < y.n * x.d
    ELSE IF (~Finite(x) /\ x.n = 0) \/ (~Finite(y) /\ y.n = 0) THEN FALSE
    ELSE IF ~Finite(x) /\ ~Finite(y) THEN x.n < y.n
    ELSE IF ~Finite(x) THEN x.n < 0
    ELSE y.n > 0
RGt(x, y) == RLt(y, x)
RLeq(x, y) == RLt(x, y) \/ (Finite(x) /\ Finite(y) /\ x = y)

\* the least integer not below a finite x
Ceil(x) == -((-x.n) \div x.d)

\* np.arange(start, stop, step) of floats, step not 0:
\* ceil((stop - start)/step) elements start + m*step
ArangeLen(start, stop, step) ==
    LET len == Ceil(RDiv(RSub(stop, start), step)) IN IF len < 0 THEN 0 ELSE len
Arange(start, stop, step) ==
    [m \in 1..ArangeLen(start, stop, step) |-> RAdd(start, RMul(R(m - 1), step))]

\* lines 61, 62 and lines 178, 179: the width and the height of a stratum
StratumWidth(pxy, pstrata) == RDiv(RSub(pxy[2], pxy[1]), R(pstrata))
StratumHeight(pxy, pstrata) == RDiv(RSub(pxy[4], pxy[3]), R(pstrata))

\* the values np.random.random draws from [0, 1)
Rands == {R(0), Norm(3, 4)}

\* the rectangles [x1, x2, y1, y2] passed: a proper one, one with x1 > x2,
\* one of no width and one of no height
Rects ==
    {<<R(1), R(5), R(0), R(2)>>, <<R(2), R(0), R(0), R(2)>>,
     <<R(0), R(0), R(0), R(2)>>, <<R(0), R(2), R(1), R(1)>>}

\* pack not called
NoPack ==
    /\ array = Unset /\ mask = Unset /\ kPack = Unset /\ afmask = Unset
    /\ afarray = Unset /\ dout = Unset /\ nn = Unset /\ out = Unset

\* the locals of srrasa and srrasa_trans before their first statement
NoLocals ==
    /\ sWidth = Unset /\ sHeight = Unset /\ tl = Unset
    /\ xsteps = Unset /\ ysteps = Unset /\ rand_xy = Unset
    /\ jRow = Unset /\ kTr = Unset /\ o = Unset /\ goon = Unset /\ it = Unset
    /\ seedx_trans = Unset /\ seedy_trans = Unset /\ nwritten = Unset

\* srrasa(xy, strata, n) at its entry
InitSrrasa ==
    /\ xy \in Rects
    /\ strata \in 0..MaxStrata
    /\ nPts \in 0..MaxN
    /\ strata * strata * nPts <= MaxRows
    /\ num = Unset /\ rl = Unset
    /\ NoLocals
    /\ pc = "steps"
    /\ err = "none"
    /\ NoSobol /\ NoPack /\ NoNetcdf

\* lines 61-64: the strata; dividing by strata = 0 raises, and np.arange
\* raises for a step of 0
Steps ==
    /\ pc = "steps"
    /\ IF strata = 0
       THEN pc' = "error" /\ err' = "ZeroDivisionError"
            /\ UNCHANGED <<sWidth, sHeight, xsteps, ysteps>>
       ELSE LET w == StratumWidth(xy, strata)
                h == StratumHeight(xy, strata)
            IN  /\ sWidth' = w
                /\ sHeight' = h
                /\ IF w.n = 0
                   THEN pc' = "error" /\ err' = "ValueError"
                        /\ UNCHANGED <<xsteps, ysteps>>
                   ELSE /\ xsteps' = Arange(xy[1], RAdd(xy[2], w), w)
                        /\ IF h.n = 0
                           THEN pc' = "error" /\ err' = "ValueError"
                                /\ UNCHANGED ysteps
                           ELSE /\ ysteps' = Arange(xy[3], RAdd(xy[4], h), h)
                                /\ pc' = "alloc" /\ UNCHANGED err
    /\ UNCHANGED <<xy, strata, nPts, num, rl, tl, rand_xy, jRow, kTr, o, goon, it,
                   seedx_trans, seedy_trans, nwritten>>
    /\ UNCHANGED <<args, resolved, scalars, loopvars, out, heap, packvars, ncvars>>

\* line 67: np.empty((strata**2*n, 2)), and the loops entered (lines 70, 71)
Alloc ==
    /\ pc = "alloc"
    /\ rand_xy' = [r \in 1..(strata * strata * nPts) |-> <<Uninit, Uninit>>]
    /\ nwritten' = [r \in 1..(strata * strata * nPts) |-> 0]
    /\ jRow' = 0
    /\ i' = 0
    /\ pc' = "fill"
    /\ UNCHANGED <<xy, strata, nPts, num, rl, sWidth, sHeight, tl, xsteps, ysteps,
                   kTr, o, goon, it, seedx_trans, seedy_trans>>
    /\ UNCHANGED <<args, resolved, scalars, isi, isti, out, heap, packvars, ncvars, err>>

\* the strata laid one after the other, the rows of a line of strata apart
FirstRowNoLine(pi, pj, pn, pstrata) == pi * pn + pn * pj

\* lines 73, 76: the first row of stratum (i, j), i*n + strata*n*j
FirstRow(pi, pj, pn, pstrata) == pi * pn + pstrata * pn * pj

\* lines 74, 77: (steps[i+1] - steps[i]) * random + steps[i]
PointIn(psteps, pi, r) ==
    RAdd(RMul(RSub(psteps[pi + 2], psteps[pi + 1]), r), psteps[pi + 1])

\* lines 70-77: one pass of the inner loop, the n points of stratum (i, j)
FillStratum ==
    /\ pc = "fill"
    /\ jRow < strata
    /\ \E rx \in [1..nPts -> Rands], ry \in [1..nPts -> Rands] :
          LET lo == FirstRow(i, jRow, nPts, strata)
              hit(r) == r - 1 >= lo /\ r - 1 < lo + nPts
          IN  /\ rand_xy' = [r \in DOMAIN rand_xy |->
                    IF hit(r)
                    THEN <<PointIn(xsteps, i, rx[r - lo]), PointIn(ysteps, jRow, ry[r - lo])>>
                    ELSE rand_xy[r]]
              /\ nwritten' = [r \in DOMAIN nwritten |->
                    IF hit(r) THEN nwritten[r] + 1 ELSE nwritten[r]]
    /\ IF i + 1 < strata
       THEN i' = i + 1 /\ UNCHANGED jRow
       ELSE i' = 0 /\ jRow' = jRow + 1
    /\ UNCHANGED <<xy, strata, nPts, num, rl, sWidth, sHeight, tl, xsteps, ysteps,
                   kTr, o, goon, it, seedx_trans, seedy_trans>>
    /\ UNCHANGED <<args, resolved, scalars, isi, isti, out, heap, packvars, ncvars, pc, err>>

\* line 110, the plot of lines 80-108 not asked for
ReturnSrrasa ==
    /\ pc = "fill"
    /\ jRow = strata
    /\ pc' = "done"
    /\ UNCHANGED <<srvars, err>>
    /\ UNCHANGED <<args, resolved, scalars, loopvars, out, heap, packvars, ncvars>>

NextSrrasa == Steps \/ Alloc \/ FillStratum \/ ReturnSrrasa

SpecSrrasa == InitSrrasa /\ [][NextSrrasa]_vars

(* ------------------------ srrasa_trans, src/srrasa.py ----------------- *)

\* 1000 * log(t) for t = 1..8, to the nearest integer
LogMilli == <<0, 693, 1099, 1386, 1609, 1792, 1946, 2079>>

\* line 201: np.log(tx)/np.max(np.log(tx)) at tx = t; 0/0 is nan for num = 1
LogRatio(t, pnum) == RDiv(R(LogMilli[t]), R(LogMilli[pnum]))

\* the place of x in np.sort: the number of elements that come before it, nan last
RECURSIVE SortR(_)
SortR(q) ==
    IF Len(q) = 0 THEN <<>>
    ELSE LET IsNan(x) == ~Finite(x) /\ x.n = 0
             first(m) == \A p \in 1..Len(q) :
                            \/ IsNan(q[p])
                            \/ (~IsNan(q[m]) /\ RLeq(q[m], q[p]))
             m == IF \E p \in 1..Len(q) : first(p)
                  THEN CHOOSE p \in 1..Len(q) : first(p) /\ \A p2 \in 1..(p - 1) : ~first(p2)
                  ELSE 1
         IN  <<q[m]>> \o SortR([p \in 1..(Len(q) - 1) |-> IF p < m THEN q[p] ELSE q[p + 1]])

\* line 201 before the sort: tl - np.log(tx)/np.max(np.log(tx))*tl
DisUnsorted(ptl, pnum) ==
    [t \in 1..pnum |-> RSub(ptl, RMul(LogRatio(t, pnum), ptl))]

\* lines 200, 201: dis = np.sort(tl - np.log(tx)/np.max(np.log(tx))*tl)
Dis(ptl, pnum) ==
    SortR(DisUnsorted(ptl, pnum))

\* the angles 360 * np.random.random(1) drawn, in degrees, and their sine
\* and cosine
Angles == {0, 90, 180, 270}
SinDeg(a) == IF a = 90 THEN R(1) ELSE IF a = 270 THEN R(-1) ELSE R(0)
CosDeg(a) == IF a = 0 THEN R(1) ELSE IF a = 180 THEN R(-1) ELSE R(0)

\* lines 196-203: the transect before its rotation, from the seed (sx, sy)
SeedX(sx, dis, pnum) == [t \in 1..pnum |-> RAdd(sx, dis[t])]
SeedY(sy, pnum) == [t \in 1..pnum |-> sy]

\* lines 209-214: the transect turned by angle a about its first point
TransX(seedx, seedy, a) ==
    [t \in 1..Len(seedx) |->
        RAdd(RAdd(RNeg(RMul(RSub(seedy[t], seedy[1]), SinDeg(a))),
                  RMul(RSub(seedx[t], seedx[1]), CosDeg(a))), seedx[1])]
TransY(seedx, seedy, a) ==
    [t \in 1..Len(seedx) |->
        RAdd(RAdd(RMul(RSub(seedy[t], seedy[1]), CosDeg(a)),
                  RMul(RSub(seedx[t], seedx[1]), SinDeg(a))), seedy[1])]

\* the test with the edges of the stratum allowed
InStrataClosed(tx, ty, pxsteps, pysteps, pi, pj) ==
    /\ \A t \in 1..Len(tx) : RLeq(pxsteps[pi + 1], tx[t]) /\ RLeq(tx[t], pxsteps[pi + 2])
    /\ \A t \in 1..Len(ty) : RLeq(pysteps[pj + 1], ty[t]) /\ RLeq(ty[t], pysteps[pj + 2])

\* lines 217-220: every point of the transect strictly inside stratum (i, j)
InStrata(tx, ty, pxsteps, pysteps, pi, pj) ==
    /\ \A t \in 1..Len(tx) : RGt(tx[t], pxsteps[pi + 1]) /\ RLt(tx[t], pxsteps[pi + 2])
    /\ \A t \in 1..Len(ty) : RGt(ty[t], pysteps[pj + 1]) /\ RLt(ty[t], pysteps[pj + 2])

\* the values np.random.random(1) draws for the seed of a transect
Seeds == {R(0), Norm(1, 4), Norm(3, 4)}

\* the relative lengths rl of a transect passed
Rls == {Norm(1, 2), Norm(3, 2)}

\* srrasa_trans(xy, strata, n, num, rl) at its entry
InitTrans ==
    /\ xy \in Rects
    /\ strata \in 0..MaxStrata
    /\ nPts \in 1..MaxN
    /\ strata * strata * nPts <= MaxTransects
    /\ num \in 0..MaxNum
    /\ rl \in Rls
    /\ NoLocals
    /\ pc = "tsteps"
    /\ err = "none"
    /\ NoSobol /\ NoPack /\ NoNetcdf

\* lines 178-182: the strata as in srrasa, and the length of a transect
TransSteps ==
    /\ pc = "tsteps"
    /\ IF strata = 0
       THEN pc' = "error" /\ err' = "ZeroDivisionError"
            /\ UNCHANGED <<sWidth, sHeight, xsteps, ysteps, tl>>
       ELSE LET w == StratumWidth(xy, strata)
                h == StratumHeight(xy, strata)
            IN  /\ sWidth' = w
                /\ sHeight' = h
                /\ IF w.n = 0
                   THEN pc' = "error" /\ err' = "ValueError"
                        /\ UNCHANGED <<xsteps, ysteps, tl>>
                   ELSE /\ xsteps' = Arange(xy[1], RAdd(xy[2], w), w)
                        /\ IF h.n = 0
                           THEN pc' = "error" /\ err' = "ValueError"
                                /\ UNCHANGED <<ysteps, tl>>
                           ELSE /\ ysteps' = Arange(xy[3], RAdd(xy[4], h), h)
                                /\ tl' = RMul(w, rl)
                                /\ pc' = "talloc" /\ UNCHANGED err
    /\ UNCHANGED <<xy, strata, nPts, num, rl, rand_xy, jRow, kTr, o, goon, it,
                   seedx_trans, seedy_trans, nwritten>>
    /\ UNCHANGED <<args, resolved, scalars, loopvars, out, heap, packvars, ncvars>>

\* lines 185-193: np.empty((strata**2*n*num, 2)), o = 0, the loops entered
\* and the first transect begun
TransAlloc ==
    /\ pc = "talloc"
    /\ rand_xy' = [r \in 1..(strata * strata * nPts * num) |-> <<Uninit, Uninit>>]
    /\ nwritten' = [r \in 1..(strata * strata * nPts * num) |-> 0]
    /\ o' = 0
    /\ jRow' = 0 /\ i' = 0 /\ kTr' = 0
    /\ goon' = TRUE /\ it' = 0
    /\ pc' = "try"
    /\ UNCHANGED <<xy, strata, nPts, num, rl, sWidth, sHeight, tl, xsteps, ysteps,
                   seedx_trans, seedy_trans>>
    /\ UNCHANGED <<args, resolved, scalars, isi, isti, out, heap, packvars, ncvars, err>>

\* lines 194-225: one pass of the while loop, a seed and an angle drawn, the
\* transect laid out, turned and tested; np.max of an empty array raises
Try ==
    /\ pc = "try"
    /\ goon = TRUE
    /\ it < MaxTries
    /\ IF num = 0
       THEN pc' = "error" /\ err' = "ValueError"
            /\ UNCHANGED <<goon, it, seedx_trans, seedy_trans>>
       ELSE \E rx \in Seeds, ry \in Seeds, angle \in Angles :
            \E dis \in {Dis(tl, num)} :
            \E seedx \in {SeedX(PointIn(xsteps, i, rx), dis, num)} :
            \E seedy \in {SeedY(PointIn(ysteps, jRow, ry), num)} :
                  /\ seedx_trans' = TransX(seedx, seedy, angle)
                  /\ seedy_trans' = TransY(seedx, seedy, angle)
                  /\ goon' = ~InStrata(seedx_trans', seedy_trans', xsteps, ysteps, i, jRow)
                  /\ it' = it + 1
                  /\ pc' = IF goon' THEN "try" ELSE "write"
                  /\ UNCHANGED err
    /\ UNCHANGED <<xy, strata, nPts, num, rl, sWidth, sHeight, tl, xsteps, ysteps,
                   rand_xy, jRow, kTr, o, nwritten>>
    /\ UNCHANGED <<args, resolved, scalars, loopvars, out, heap, packvars, ncvars>>

\* line 229: o += num
NextOffset(po, pnum) == po + pnum

\* lines 227-229, and lines 188-193 for the transect that follows: the
\* transect stored in rows o .. o+num-1, the offset moved on, the loops advanced
WriteTransect ==
    /\ pc = "write"
    /\ rand_xy' = [r \in DOMAIN rand_xy |->
          IF r - 1 >= o /\ r - 1 < o + num
          THEN <<seedx_trans[r - o], seedy_trans[r - o]>>
          ELSE rand_xy[r]]
    /\ nwritten' = [r \in DOMAIN nwritten |->
          IF r - 1 >= o /\ r - 1 < o + num THEN nwritten[r] + 1 ELSE nwritten[r]]
    /\ o' = NextOffset(o, num)
    /\ IF kTr + 1 < nPts
       THEN kTr' = kTr + 1 /\ UNCHANGED <<i, jRow>>
       ELSE /\ kTr' = 0
            /\ IF i + 1 < strata
               THEN i' = i + 1 /\ UNCHANGED jRow
               ELSE i' = 0 /\ jRow' = jRow + 1
    /\ IF jRow' < strata
       THEN goon' = TRUE /\ it' = 0 /\ pc' = "try"
       ELSE pc' = "treturn" /\ UNCHANGED <<goon, it>>
    /\ UNCHANGED <<xy, strata, nPts, num, rl, sWidth, sHeight, tl, xsteps, ysteps,
                   seedx_trans, seedy_trans>>
    /\ UNCHANGED <<args, resolved, scalars, isi, isti, out, heap, packvars, ncvars, err>>

\* line 262, the plot of lines 231-260 reading only
ReturnTrans ==
    /\ pc = "treturn"
    /\ pc' = "done"
    /\ UNCHANGED <<srvars, err>>
    /\ UNCHANGED <<args, resolved, scalars, loopvars, out, heap, packvars, ncvars>>

NextTrans == TransSteps \/ TransAlloc \/ Try \/ WriteTransect \/ ReturnTrans

SpecTrans == InitTrans /\ [][NextTrans]_vars

(* ---------------------- writenetcdf, src/writenetcdf.py --------------- *)

\* The file is what the netCDF4 calls of the function leave in it: the global
\* attributes, the dimensions and the variables, each by name. A variable has
\* its type, its dimensions, its attributes and the assignments made to it; a
\* dimension has its size (None: unlimited) and its present length. born is
\* the number of the call that created the entry.

NoEntries == [x \in {} |-> None]
NewFile == [attrs |-> NoEntries, dimensions |-> NoEntries, variables |-> NoEntries]

\* setncattr(n, v): the attribute n set or set anew
SetAttr(f, n, v) == [x \in (DOMAIN f) \cup {n} |-> IF x = n THEN v ELSE f[x]]

\* no pair of the list set
SetAttrsNone(f, list) == f

\* lines 143, 144 and 173, 174: the pairs of the list set one after the other
RECURSIVE SetAttrs(_, _)
SetAttrs(f, list) ==
    IF list = <<>> THEN f
    ELSE SetAttrs(SetAttr(f, list[1][1], list[1][2]), Tail(list))

\* a variable handle, and the handles of the variables of a file
Handle(n) == [tag |-> "var", name |-> n]
Handles(fh) == {Handle(n) : n \in DOMAIN fh.variables}

\* createDimension(n, size) and createVariable(n, typ, dims) of netCDF4 at call c
CreateDimension(fh, n, size, c) ==
    [fh EXCEPT !.dimensions =
        SetAttr(@, n, [size |-> size, len |-> IF Given(size) THEN size.v ELSE 0, born |-> c])]
CreateVariable(fh, n, ptyp, pdims, c) ==
    [fh EXCEPT !.variables =
        SetAttr(@, n, [typ |-> ptyp, dims |-> pdims, attrs |-> NoEntries,
                       data |-> <<>>, born |-> c])]

\* hand.shape: the present lengths of the dimensions of the variable
ShapeOf(fh, h) ==
    LET d == fh.variables[h.name].dims
    IN  [m \in 1..Len(d) |-> fh.dimensions[d[m]].len]

\* a string, and an array of the given shape
Str(v) == [tag |-> "str", v |-> v]
Nd(shape) == [tag |-> "nd", shape |-> shape]

\* lines 151-157: the type of the variable created
TypOf(pvartype, pisdim, pdims) ==
    IF ~Given(pvartype)
    THEN (IF pisdim /\ ~Given(pdims) THEN Str("f8") ELSE Str("f4"))
    ELSE pvartype

\* every name of dims taken for a dimension of the file
MissingDimsNone(fh, pdims) == {}

\* lines 166-168: the places of dims that name no dimension of the file
MissingDims(fh, pdims) ==
    {m \in 1..Len(pdims) : pdims[m] \notin DOMAIN fh.dimensions}

\* np.size(np.shape(time)): 0 for a scalar, 1 for a list, 2 for a list of lists
TimeDims(ptime) ==
    IF ptime.tag = "num" THEN 0 ELSE IF ptime.tag = "arr" THEN 1 ELSE 2

\* a time of two dimensions taken as an index vector
TimeErrorVectorElse(ptime, pvar, shand) ==
    IF TimeDims(ptime) = 0 THEN Len(pvar.shape) # Len(shand) - 1
    ELSE Len(pvar.shape) # Len(shand)

\* lines 179-187: the call raises ValueError for this time, var and hand.shape
TimeError(ptime, pvar, shand) ==
    IF TimeDims(ptime) = 0 THEN Len(pvar.shape) # Len(shand) - 1
    ELSE IF TimeDims(ptime) = 1 THEN Len(pvar.shape) # Len(shand)
    ELSE TRUE

\* lines 188-201 and 205-218: an assignment is written for 1 to 6 dimensions
Supported(shand) == Len(shand) >= 1 /\ Len(shand) <= 6

\* the time steps indexed, and the shape of hand[time, :, ...]
StepsOf(ptime) == IF ptime.tag = "num" THEN <<ptime.v>> ELSE ptime.v
SlabOf(ptime, shand) ==
    IF ptime.tag = "num" THEN Tail(shand) ELSE <<Len(ptime.v)>> \o Tail(shand)

\* netCDF4 takes hand[time, :, ...] = var: var has the shape of the slab and
\* the steps lie within the first dimension or the first dimension is unlimited
FitsTime(fh, h, ptime, pvar) ==
    LET d1 == fh.dimensions[fh.variables[h.name].dims[1]]
    IN  /\ pvar.shape = SlabOf(ptime, ShapeOf(fh, h))
        /\ \A m \in 1..Len(StepsOf(ptime)) :
              ~Given(d1.size) \/ StepsOf(ptime)[m] < d1.len

\* netCDF4 takes hand[:, ...] = var: var has the shape of the variable
FitsAll(fh, h, pvar) == pvar.shape = ShapeOf(fh, h)

\* the largest entry of a sequence of naturals, -1 for none
RECURSIVE MaxOf(_)
MaxOf(q) ==
    IF q = <<>> THEN -1
    ELSE LET rest == MaxOf(Tail(q)) IN IF q[1] > rest THEN q[1] ELSE rest

\* the file after the assignment: var stored in the variable, and an
\* unlimited first dimension grown to hold the steps
Assigned(fh, h, ptime, pvar) ==
    LET dn == fh.variables[h.name].dims[1]
        d1 == fh.dimensions[dn]
        top == IF Given(ptime) THEN MaxOf(StepsOf(ptime)) + 1 ELSE 0
        stored == [fh EXCEPT !.variables[h.name].data =
                      Append(@, [time |-> ptime, var |-> pvar])]
    IN  IF ~Given(d1.size) /\ top > d1.len
        THEN [stored EXCEPT !.dimensions[dn].len = top]
        ELSE stored

\* the lists of attributes, the arrays, the times and the lists of
\* dimension names passed
AttrLists == {None, Arr(<<<<"units", "m">>>>)}
FileAttrLists ==
    {Arr(<<>>), Arr(<<<<"history", "a">>, <<"title", "b">>>>),
     Arr(<<<<"history", "a">>, <<"history", "b">>>>)}
VarArgs == {None, Nd(<<>>), Nd(<<2>>), Nd(<<2, 2>>), Nd(<<2, 2, 2, 2, 2, 2>>)}
TimeArgs == {None, Num(0), Arr(<<0, 1>>), Mat(<<<<0, 1>>>>)}
DimLists ==
    {Arr(<<>>), Arr(<<"t">>), Arr(<<"t", "x">>),
     Arr(<<"x", "x", "x", "x", "x", "x", "x">>)}

\* the calls made on the file fh: with file attributes, whatever else is
\* passed; of a dimension; of a variable to create, also under the name of a
\* dimension; with a variable handle that an earlier call returned
NcCalls(fh) ==
    [vhandle : {None} \cup Handles(fh), var : {None, Nd(<<2>>)}, time : {None, Num(0)},
     isdim : BOOLEAN, name : {"t"}, dims : {None, Arr(<<"x">>)},
     attributes : AttrLists, fileattributes : FileAttrLists, vartype : {None}]
    \cup
    [vhandle : {None}, var : {None, Nd(<<2>>)}, time : {None},
     isdim : {TRUE}, name : {"t", "x"}, dims : {None, Num(2)},
     attributes : AttrLists, fileattributes : {None}, vartype : {None, Str("i4")}]
    \cup
    [vhandle : {None}, var : VarArgs, time : TimeArgs,
     isdim : {FALSE}, name : {"v"}, dims : DimLists \cup {None},
     attributes : AttrLists, fileattributes : {None}, vartype : {None}]
    \cup
    [vhandle : {None}, var : {None}, time : {None},
     isdim : {FALSE}, name : {"t"}, dims : {Arr(<<>>), Arr(<<"t">>)},
     attributes : AttrLists, fileattributes : {None}, vartype : {None}]
    \cup
    [vhandle : Handles(fh), var : VarArgs, time : TimeArgs,
     isdim : {FALSE}, name : {"v"}, dims : {None},
     attributes : AttrLists, fileattributes : {None}, vartype : {None}]

\* the first call on a new file
InitNetcdf ==
    /\ fhandle = NewFile
    /\ fentry = NewFile
    /\ callno = 1
    /\ \E c \in NcCalls(NewFile) :
          /\ vhandle = c.vhandle /\ var = c.var /\ time = c.time
          /\ isdim = c.isdim /\ name = c.name /\ dims = c.dims
          /\ attributes = c.attributes /\ fileattributes = c.fileattributes
          /\ vartype = c.vartype
    /\ typ = Unset /\ hand = Unset /\ ret = Unset
    /\ pc = "fileattrs"
    /\ err = "none"
    /\ NoSobol /\ NoPack /\ NoSrrasa

ncargs == <<vhandle, var, time, isdim, name, dims, attributes, fileattributes, vartype>>
notNetcdf == <<args, resolved, scalars, loopvars, out, heap, packvars, srvars>>

\* lines 141-145: with file attributes the pairs are set and None is returned
NcFileAttributes ==
    /\ pc = "fileattrs"
    /\ IF Given(fileattributes)
       THEN /\ fhandle' = [fhandle EXCEPT !.attrs = SetAttrs(@, fileattributes.v)]
            /\ ret' = None
            /\ pc' = "done"
       ELSE pc' = "handle" /\ UNCHANGED <<fhandle, ret>>
    /\ UNCHANGED <<ncargs, typ, hand, callno, fentry, err, notNetcdf>>

\* lines 147-170: the handle passed, or a dimension and its variable created,
\* or a variable created on dimensions of the file; netCDF4 raises for a
\* name in use, len(None) raises TypeError
NcHandle ==
    /\ pc = "handle"
    /\ IF Given(vhandle)
       THEN /\ hand' = vhandle
            /\ pc' = "attrs"
            /\ UNCHANGED <<typ, fhandle, err>>
       ELSE /\ typ' = TypOf(vartype, isdim, dims)
            /\ IF isdim
               THEN IF name \in DOMAIN fhandle.dimensions
                    THEN pc' = "error" /\ err' = "RuntimeError"
                         /\ UNCHANGED <<fhandle, hand>>
                    ELSE IF name \in DOMAIN fhandle.variables
                    THEN /\ fhandle' = CreateDimension(fhandle, name, dims, callno)
                         /\ pc' = "error" /\ err' = "RuntimeError"
                         /\ UNCHANGED hand
                    ELSE /\ fhandle' = CreateVariable(
                                CreateDimension(fhandle, name, dims, callno),
                                name, typ', <<name>>, callno)
                         /\ hand' = Handle(name)
                         /\ pc' = "attrs" /\ UNCHANGED err
               ELSE IF ~Given(dims)
                    THEN pc' = "error" /\ err' = "TypeError"
                         /\ UNCHANGED <<fhandle, hand>>
                    ELSE IF MissingDims(fhandle, dims.v) # {}
                    THEN pc' = "error" /\ err' = "ValueError"
                         /\ UNCHANGED <<fhandle, hand>>
                    ELSE IF name \in DOMAIN fhandle.variables
                    THEN pc' = "error" /\ err' = "RuntimeError"
                         /\ UNCHANGED <<fhandle, hand>>
                    ELSE /\ fhandle' = CreateVariable(fhandle, name, typ', dims.v, callno)
                         /\ hand' = Handle(name)
                         /\ pc' = "attrs" /\ UNCHANGED err
    /\ UNCHANGED <<ncargs, ret, callno, fentry, notNetcdf>>

\* lines 172-174: the attributes of the variable
NcAttributes ==
    /\ pc = "attrs"
    /\ fhandle' = IF Given(attributes)
                  THEN [fhandle EXCEPT !.variables[hand.name].attrs = SetAttrs(@, attributes.v)]
                  ELSE fhandle
    /\ pc' = "data"
    /\ UNCHANGED <<ncargs, typ, hand, ret, callno, fentry, err, notNetcdf>>

\* lines 176-218: the data; the checks of the code raise ValueError, netCDF4
\* raises for an array that does not fit the slab
NcData ==
    /\ pc = "data"
    /\ IF ~Given(var)
       THEN pc' = "return" /\ UNCHANGED <<fhandle, err>>
       ELSE LET shand == ShapeOf(fhandle, hand)
            IN  IF Given(time)
                THEN IF TimeError(time, var, shand) \/ ~Supported(shand)
                     THEN pc' = "error" /\ err' = "ValueError" /\ UNCHANGED fhandle
                     ELSE IF ~FitsTime(fhandle, hand, time, var)
                     THEN pc' = "error" /\ err' = "netCDF4" /\ UNCHANGED fhandle
                     ELSE /\ fhandle' = Assigned(fhandle, hand, time, var)
                          /\ pc' = "return" /\ UNCHANGED err
                ELSE IF Prod(var.shape) # Prod(shand) \/ ~Supported(shand)
                     THEN pc' = "error" /\ err' = "ValueError" /\ UNCHANGED fhandle
                     ELSE IF ~FitsAll(fhandle, hand, var)
                     THEN pc' = "error" /\ err' = "netCDF4" /\ UNCHANGED fhandle
                     ELSE /\ fhandle' = Assigned(fhandle, hand, time, var)
                          /\ pc' = "return" /\ UNCHANGED err
    /\ UNCHANGED <<ncargs, typ, hand, ret, callno, fentry, notNetcdf>>

\* line 219
NcReturn ==
    /\ pc = "return"
    /\ ret' = hand
    /\ pc' = "done"
    /\ UNCHANGED <<ncargs, fhandle, typ, hand, callno, fentry, err, notNetcdf>>

\* the next call on the file, after a return or an exception
NcNewCall ==
    /\ pc \in {"done", "error"}
    /\ callno < MaxNcCalls
    /\ callno' = callno + 1
    /\ fentry' = fhandle
    /\ \E c \in NcCalls(fhandle) :
          /\ vhandle' = c.vhandle /\ var' = c.var /\ time' = c.time
          /\ isdim' = c.isdim /\ name' = c.name /\ dims' = c.dims
          /\ attributes' = c.attributes /\ fileattributes' = c.fileattributes
          /\ vartype' = c.vartype
    /\ typ' = Unset /\ hand' = Unset /\ ret' = Unset
    /\ pc' = "fileattrs"
    /\ err' = "none"
    /\ UNCHANGED <<fhandle, notNetcdf>>

NextNetcdf ==
    NcFileAttributes \/ NcHandle \/ NcAttributes \/ NcData \/ NcReturn \/ NcNewCall

SpecNetcdf == InitNetcdf /\ [][NextNetcdf]_vars

(* ------------------------------- claims ------------------------------- *)

\* sum_j x[j]*y[j] of two sequences of one length
SumProd(x, y) == SumSeq([j \in 1..Len(x) |-> x[j] * y[j]])

\* the float x is the quotient p/q of two integers: p/q in lowest terms,
\* or not finite when q is 0
IsQuotient(x, p, q) ==
    IF q = 0 THEN ~Finite(x) ELSE Finite(x) /\ x.n * q = p * x.d

\* Both indices have the denominator var_A = sum(A^2)/ns - sum(A*B)/ns.
\* Multiplied by ns*(ns-1) the claimed values are quotients of integers:
\*   Si[i]  = (ns*sum(A*Ci) - (ns-1)*sum(A*B)) / ((ns-1)*(sum(A^2) - sum(A*B)))
\*   STi[i] = 1 - (ns*sum(B*Ci) - (ns-1)*sum(A*B)) / ((ns-1)*(sum(A^2) - sum(A*B)))
Denom == (nsa - 1) * (SumProd(iyA, iyA) - SumProd(iyA, iyB))
SiNumer(k) == nsa * SumProd(iyA, iyC[k]) - (nsa - 1) * SumProd(iyA, iyB)
StiNumer(k) == Denom - (nsa * SumProd(iyB, iyC[k]) - (nsa - 1) * SumProd(iyA, iyB))

\* C1: when Si is requested, the returned Si[i] of every parameter i is
\* (sum_j(A[j]*C[i][j])/(ns-1) - f0_sq) / var_A with f0_sq = sum_j(A[j]*B[j])/ns
\* and var_A = sum_j(A[j]^2)/ns - f0_sq, for the resolved A, B, C.
C1_SiFormula ==
    (pc = "done" /\ si) =>
        /\ Len(out[1]) = nn
        /\ \A k \in 1..nn : IsQuotient(out[1][k], SiNumer(k), Denom)

\* a call that returned two different finite first-order indices, one of
\* them not an integer
C1_Witness ==
    /\ pc = "done" /\ si /\ nn = 2
    /\ Finite(out[1][1]) /\ Finite(out[1][2])
    /\ out[1][1] # out[1][2]
    /\ out[1][1].d > 1

\* C2: when STi is requested, the returned STi[i] of every parameter i is
\* 1 - (sum_j(B[j]*C[i][j])/(ns-1) - f0_sq) / var_A with the f0_sq and var_A
\* of Si: the cross term is taken with B.
C2_StiFormula ==
    (pc = "done" /\ sti) =>
        /\ Len(out[Len(out)]) = nn
        /\ \A k \in 1..nn : IsQuotient(out[Len(out)][k], StiNumer(k), Denom)

\* a call with A # B that returned two different finite total indices
C2_Witness ==
    /\ pc = "done" /\ sti /\ nn = 2
    /\ iyA # iyB
    /\ Finite(out[Len(out)][1]) /\ Finite(out[Len(out)][2])
    /\ out[Len(out)][1] # out[Len(out)][2]
    /\ SumProd(iyA, iyC[1]) # SumProd(iyB, iyC[1])

\* the call under way is sobol_index(ya=A, yb=B, yc=C) with A, B and the rows
\* of C of one length
ConsistentExplicit ==
    /\ ~Given(s) /\ ~Given(ns)
    /\ Given(ya) /\ Given(yb) /\ Given(yc)
    /\ Len(ya.v) = Len(yb.v)
    /\ Len(ya.v) = Len(yc.v[1])

\* C3: for A, B of length ns and a k x ns matrix C, the packed call with
\* S = A ++ B ++ ravel(C) and ns ends as the explicit call with (A, B, C)
\* does: it returns the same list of Si and STi, or neither returns.
C3_PackedEqualsExplicit ==
    (ConsistentExplicit /\ pc \in {"done", "error"}) =>
        \A u \in BOOLEAN :
            LET p == SobolIndex(Packed(ya.v, yb.v, yc.v), si, sti, u)
            IN  /\ (pc = "done") <=> (p.err = "none")
                /\ pc = "done" => p.out = out

\* an explicit call with two parameters that returned finite, different
\* indices and whose A and B differ
C3_Witness ==
    /\ ConsistentExplicit /\ pc = "done" /\ si /\ sti /\ nn = 2
    /\ ya.v # yb.v
    /\ yc.v[1] # yc.v[2]
    /\ Finite(out[1][1]) /\ out[1][1] # out[1][2]

\* the number k of parameters of the call under way: the rows of C, or
\* len(S)/ns - 2 in packed mode
ExactK(k) ==
    IF UsePacked(s, ns, ya) THEN Len(s.v) = ns.v * (k + 2)
    ELSE IF UsePositional(s, ns, ya) THEN Len(ya.v) = k
    ELSE Len(yc.v) = k

\* C4: every array a successful call returns has exactly k elements, k
\* the number of rows of C or len(S)/ns - 2.
C4_OutputLength ==
    pc = "done" => \A x \in 1..Len(out) : ExactK(Len(out[x]))

\* a packed call that returned both indices for two parameters
C4_Witness ==
    /\ pc = "done" /\ UsePacked(s, ns, ya) /\ si /\ sti
    /\ Len(out) = 2 /\ Len(out[1]) = 2 /\ Len(out[2]) = 2

\* C5: a call asking for Si alone returns one array, the Si of the same
\* call asking for both; a call asking for STi alone returns one array, the
\* STi of the call asking for both.
C5_SelectiveOutput ==
    (pc = "done" /\ si # sti) =>
        \A u \in BOOLEAN :
            LET both == SobolIndex(CurCall, TRUE, TRUE, u)
            IN  /\ both.err = "none"
                /\ Len(out) = 1
                /\ out[1] = both.out[IF si THEN 1 ELSE 2]

\* a call for STi alone on data whose Si and STi differ
C5_Witness ==
    /\ pc = "done" /\ ~si /\ sti /\ nn = 2
    /\ LET both == SobolIndex(CurCall, TRUE, TRUE, TRUE)
       IN  both.out[1] # both.out[2] /\ out = <<both.out[2]>>

\* C6: the list returned holds Si iff si and STi iff sti, Si first.
C6_OutputOrder ==
    pc = "done" =>
        /\ Len(out) = (IF si THEN 1 ELSE 0) + (IF sti THEN 1 ELSE 0)
        /\ si => out[1] = isi
        /\ sti => out[Len(out)] = isti
        /\ \A x \in 1..Len(out) : \A k \in 1..nn : out[x][k] # Uninit

\* a call for both whose Si and STi differ
C6_Witness ==
    /\ pc = "done" /\ si /\ sti /\ nn >= 1
    /\ isi # isti
    /\ out = <<isi, isti>>

\* no statement after the check of the flags has run
NothingResolved ==
    /\ nsa = Unset /\ nn = Unset /\ iyA = Unset /\ iyB = Unset /\ iyC = Unset
    /\ fnsa = Unset /\ fnsa1 = Unset /\ f02 = Unset /\ iyAiyA = Unset /\ varA = Unset
    /\ isi = Unset /\ isti = Unset /\ i = Unset /\ out = Unset

\* C7: with si and sti both false the call fails with the no-output error
\* whatever the other arguments are, at its first step: nothing is resolved
\* and nothing computed.
C7_NoOutputFirst ==
    (~si /\ ~sti /\ pc # "check") =>
        pc = "error" /\ err = "NoOutput" /\ NothingResolved

\* the no-output error on a call whose inputs are missing, and on one whose
\* shapes disagree
C7_Witness ==
    /\ ~si /\ ~sti /\ pc = "error" /\ err = "NoOutput"
    /\ \/ ~UsePacked(s, ns, ya) /\ ~InputGiven(s, ns, ya, yb, yc)
       \/ /\ Given(ya) /\ Given(yb) /\ Given(yc) /\ ~Given(s)
          /\ Len(ya.v) # Len(yb.v)

\* neither (s, ns) nor (ya, yb, yc) is given in full
NoModeComplete ==
    /\ ~(Given(s) /\ Given(ns))
    /\ ~(Given(ya) /\ Given(yb) /\ Given(yc))

\* C8: with an output requested, the call fails with the missing-input
\* error whenever neither (s, ns) nor (ya, yb, yc) is given in full.
C8_MissingInput ==
    ((si \/ sti) /\ NoModeComplete /\ pc \notin {"check", "resolve"}) =>
        pc = "error" /\ err = "MissingInput" /\ NothingResolved

\* the missing-input error of a call that gives s, ya and yb but neither ns
\* nor yc
C8_Witness ==
    /\ pc = "error" /\ err = "MissingInput"
    /\ Given(s) /\ ~Given(ns) /\ Given(ya) /\ Given(yb) /\ ~Given(yc)

\* the call resolves A, B, C in explicit mode (lines 116-123), A and B being
\* 1-D arrays and C a matrix
ExplicitMode ==
    /\ ~UsePacked(s, ns, ya)
    /\ InputGiven(s, ns, ya, yb, yc)
    /\ IF UsePositional(s, ns, ya)
       THEN s.tag = "arr" /\ ns.tag = "arr" /\ ya.tag = "mat"
       ELSE ya.tag = "arr" /\ yb.tag = "arr" /\ yc.tag = "mat"
ExplA == IF UsePositional(s, ns, ya) THEN s.v ELSE ya.v
ExplB == IF UsePositional(s, ns, ya) THEN ns.v ELSE yb.v
ExplC == IF UsePositional(s, ns, ya) THEN ya.v ELSE yc.v

ShapeErrors == {"InvalidShape", "ReshapeError", "BroadcastError", "NegativeDimensions"}

\* the call is in packed mode and len(S) is no multiple of ns
Indivisible == UsePacked(s, ns, ya) /\ Len(s.v) % ns.v # 0

\* C10: in packed mode a call whose len(S) is no multiple of ns fails with
\* a shape error and returns nothing: it never enters the loop.
C10_PackedIndivisible ==
    ((si \/ sti) /\ Indivisible) =>
        /\ pc \in {"check", "resolve", "scalars", "error"}
        /\ pc = "error" => err \in ShapeErrors
        /\ out = Unset

\* an indivisible packed length with more than 2*ns elements, refused by
\* the reshape
C10_Witness ==
    /\ Indivisible /\ pc = "error" /\ err = "ReshapeError"
    /\ Len(s.v) > 2 * ns.v


\* the call is in packed mode with len(S) = 2*ns or len(S) = ns, so that
\* len(S)/ns - 2 is 0 or -1
ShortPacked ==
    /\ UsePacked(s, ns, ya)
    /\ Len(s.v) = 2 * ns.v \/ Len(s.v) = ns.v

\* C11 as claimed: a packed length that is a multiple of ns and gives k < 1
\* fails with a shape error and never returns (ns >= 2, as the data model
\* asks).
C11_ShortPackedFails ==
    ((si \/ sti) /\ ShortPacked /\ ns.v >= 2) =>
        /\ pc # "done"
        /\ pc = "error" => err \in ShapeErrors

\* C11 amended: with ns >= 2, len(S) = 2*ns is accepted as k = 0 and the
\* call returns empty arrays, and len(S) = ns fails in the product iyA*iyB
\* of line 132; with ns = 1 both fail in the division of line 130.
C11_ShortPackedOutcome ==
    ((si \/ sti) /\ ShortPacked /\ pc \in {"done", "error"}) =>
        /\ ns.v = 1 => pc = "error" /\ err = "ZeroDivisionError"
        /\ (ns.v >= 2 /\ Len(s.v) = 2 * ns.v) =>
              /\ pc = "done" /\ nn = 0
              /\ \A x \in 1..Len(out) : out[x] = <<>>
        /\ (ns.v >= 2 /\ Len(s.v) = ns.v) =>
              pc = "error" /\ err = "BroadcastError" /\ f02 = Unset

\* a packed call with len(S) = 2*ns that returned two empty arrays
C11_Witness ==
    /\ ShortPacked /\ pc = "done" /\ si /\ sti
    /\ Len(s.v) = 2 * ns.v
    /\ out = << <<>>, <<>> >>

\* C12 as claimed: whenever a call ends in an error, neither f0_sq nor var_A
\* nor a cross term has been computed.
C12_FailFast ==
    pc = "error" => f02 = Unset /\ varA = Unset /\ isi = Unset /\ isti = Unset

\* C12 amended: the errors of lines 104, 115 and 127 and the error of the
\* reshape of line 112 are raised before any numeric work, and no error is
\* raised once the loop has started; a packed call with len(S) < 2*ns whose
\* reshape is accepted fails at line 130 or 132 before f0_sq, or at line 135
\* after f0_sq and var_A were computed.
C12_FailFastAmended ==
    pc = "error" =>
        /\ i = Unset /\ isi = Unset /\ isti = Unset /\ out = Unset
        /\ err \in {"NoOutput", "MissingInput", "InvalidShape", "ReshapeError",
                    "IndexError"} => NothingResolved
        /\ err \in {"ZeroDivisionError", "BroadcastError"} =>
              f02 = Unset /\ iyAiyA = Unset /\ varA = Unset
        /\ err = "NegativeDimensions" =>
              /\ UsePacked(s, ns, ya) /\ Len(s.v) < 2 * ns.v
              /\ f02 # Unset /\ iyAiyA # Unset /\ varA # Unset
        /\ err \in {"NoOutput", "MissingInput", "InvalidShape", "ReshapeError",
                    "IndexError", "ZeroDivisionError", "BroadcastError",
                    "NegativeDimensions"}

\* a packed call with len(S) = ns + 1 that failed at line 135 with f0_sq and
\* var_A computed
C12_Witness ==
    /\ pc = "error" /\ err = "NegativeDimensions"
    /\ Len(s.v) = ns.v + 1
    /\ Finite(f02) /\ Finite(varA)

\* the call has ns = 1 and is otherwise consistent: one model output in A,
\* in B and in every row of C
Ns1Consistent ==
    \/ ConsistentExplicit /\ Len(ya.v) = 1
    \/ /\ UsePositional(s, ns, ya) /\ ns.tag = "arr" /\ ya.tag = "mat"
       /\ Len(s.v) = 1 /\ Len(ns.v) = 1 /\ Len(ya.v[1]) = 1
    \/ UsePacked(s, ns, ya) /\ ns.v = 1 /\ Len(s.v) >= 3

\* C13 as claimed: with ns = 1 no error is raised and the call returns
\* Si/STi of length k.
C13_Ns1Returns ==
    ((si \/ sti) /\ Ns1Consistent /\ pc \in {"done", "error"}) =>
        /\ pc = "done"
        /\ \A x \in 1..Len(out) : ExactK(Len(out[x]))

\* C13 amended: with ns = 1 the division 1. / np.float(nsa-1) of line 130 is
\* a division of Python floats and raises ZeroDivisionError; nothing is
\* returned and neither f0_sq nor an index is computed.
C13_Ns1Raises ==
    ((si \/ sti) /\ Ns1Consistent /\ pc \in {"done", "error"}) =>
        /\ pc = "error" /\ err = "ZeroDivisionError"
        /\ fnsa = R(1) /\ fnsa1 = Unset /\ f02 = Unset
        /\ out = Unset

\* the ZeroDivisionError of an explicit call with one model output and two
\* parameters
C13_Witness ==
    /\ ConsistentExplicit /\ Len(ya.v) = 1 /\ Len(yc.v) = 2
    /\ si /\ sti
    /\ pc = "error" /\ err = "ZeroDivisionError"


\* the quotient p/q of two integers is a number below 0, above 1
Below0(p, q) == q # 0 /\ p * q < 0
Above1(p, q) == q # 0 /\ (p - q) * q > 0

\* C15: an index whose exact value is below 0 or above 1 is returned as
\* that value, neither clamped nor rejected: no call fails once the loop
\* over the parameters has started.
C15_NoClamping ==
    /\ pc = "error" => i = Unset
    /\ (pc = "done" /\ si) =>
          \A k \in 1..nn :
              (Below0(SiNumer(k), Denom) \/ Above1(SiNumer(k), Denom)) =>
                  /\ IsQuotient(out[1][k], SiNumer(k), Denom)
                  /\ Below0(SiNumer(k), Denom) => out[1][k].n < 0
                  /\ Above1(SiNumer(k), Denom) => out[1][k].n > out[1][k].d
    /\ (pc = "done" /\ sti) =>
          \A k \in 1..nn :
              (Below0(StiNumer(k), Denom) \/ Above1(StiNumer(k), Denom)) =>
                  /\ IsQuotient(out[Len(out)][k], StiNumer(k), Denom)
                  /\ Below0(StiNumer(k), Denom) => out[Len(out)][k].n < 0
                  /\ Above1(StiNumer(k), Denom) =>
                        out[Len(out)][k].n > out[Len(out)][k].d

\* a call that returned a first-order index below 0 and one above 1, and a
\* total index outside [0, 1]
C15_Witness ==
    /\ pc = "done" /\ si /\ sti /\ nn = 2
    /\ Below0(SiNumer(1), Denom) /\ out[1][1].n < 0 /\ Finite(out[1][1])
    /\ Above1(SiNumer(2), Denom) /\ out[1][2].n > out[1][2].d
    /\ \E k \in 1..2 : Finite(out[2][k]) /\ out[2][k].n > out[2][k].d

\* the keyword call sobol_index(ya=X, yb=Y, yc=Z) for the s, ns, ya of the
\* call under way
AsKeywords == [NoArrays EXCEPT !.ya = s, !.yb = ns, !.yc = ya]

\* C17: a call given s, ns and ya ends as sobol_index(ya=s, yb=ns, yc=ya)
\* does: the same error, shape errors included, or the same list returned.
C17_PositionalIsExplicit ==
    (UsePositional(s, ns, ya) /\ pc \in {"done", "error"}) =>
        \A u \in BOOLEAN :
            LET e == SobolIndex(AsKeywords, si, sti, u)
            IN  /\ e.err = (IF pc = "error" THEN err ELSE "none")
                /\ pc = "done" => e.out = out

\* a positional call with X # Y that returned finite, different indices
C17_Witness ==
    /\ UsePositional(s, ns, ya) /\ pc = "done" /\ si /\ sti /\ nn = 2
    /\ s.v # ns.v
    /\ SumProd(s.v, s.v) # SumProd(ns.v, ns.v)
    /\ Finite(out[1][1]) /\ out[1][1] # out[1][2]

\* a positional call with X and Y of different sizes that was refused
C17_WitnessShape ==
    /\ UsePositional(s, ns, ya) /\ pc = "error" /\ err = "InvalidShape"


\* C14: a call stores into no array of the caller, neither an argument nor
\* an array returned by an earlier call; the arrays it returns are new ones,
\* different from each other; and whatever calls came before, it ends as
\* its arguments alone determine.
C14_Pure ==
    /\ written \cap (InputBuffers \cup held) = {}
    /\ pc = "done" =>
          /\ Returned \cap (InputBuffers \cup held) = {}
          /\ Cardinality(Returned) = Len(out)
          /\ nn > 0 => written = Returned
    /\ pc \in {"done", "error"} =>
          \E u \in BOOLEAN :
              LET r == SobolIndex(CurCall, si, sti, u)
              IN  /\ r.err = (IF pc = "error" THEN err ELSE "none")
                  /\ pc = "done" => r.out = out

\* a second call that returned both indices while the caller holds the two
\* arrays of the first
C14_Witness ==
    /\ ncall = 2 /\ Cardinality(held) = 2
    /\ pc = "done" /\ si /\ sti /\ nn = 1
    /\ written = Returned
    /\ Finite(out[1][1]) /\ Finite(out[2][1])


\* the float x is within 1e-6 of g * 1e-8: |x.n * 1e8 - g * x.d| <= 100 * x.d
Near(x, g) ==
    /\ QFinite(x)
    /\ LLeq(LAbs(LSub(LMul(x.n, Long(100000000)), LMul(Long(g), x.d))),
            LMul(Long(100), x.d))

\* C16: on the reference data, passed in any of the three ways, the Si and
\* STi returned for every parameter are within 1e-6 of the values the
\* docstring prints.
C16_Golden ==
    pc = "done" =>
        /\ \A x \in 1..Len(out) : Len(out[x]) = nn
        /\ si => \A k \in 1..nn : Near(out[1][k], ISI1[k])
        /\ sti => \A k \in 1..nn : Near(out[Len(out)][k], ISTI1[k])

\* the call sobol_index(iya, iyb, iyc) of line 62 returned both arrays for
\* the ten parameters
C16_Witness ==
    /\ pc = "done" /\ si /\ sti /\ nn = Len(IYC)
    /\ UsePositional(s, ns, ya)
    /\ Len(out) = 2 /\ Len(out[1]) = Len(ISI1) /\ Len(out[2]) = Len(ISTI1)


\* the shape of the mask is the last dimensions of the shape of the array
TrailingMatch ==
    /\ Ndmask <= Ndarray
    /\ \A j \in 1..Ndmask : Dmask[j] = Darray[Ndarray - Ndmask + j]

\* the dimensions of the array before those of the mask
Lead == SubSeq(Darray, 1, Ndarray - Ndmask)

\* the indices of the true elements of the mask, and the j-th of them in
\* row-major order
Trues == {x \in Indices(Dmask) : mask.at[x]}
TrueAt(j) ==
    CHOOSE x \in Trues :
        Cardinality({y \in Trues : PosC(Dmask, y) <= PosC(Dmask, x)}) = j

\* C18 as claimed: for every array and every mask of r >= 1 dimensions that
\* are the last r of the array, pack returns an array of shape
\* (d1..d(m-r), t), t the number of true elements of the mask.
C18_PackShape ==
    (pc \in {"done", "error"} /\ TrailingMatch /\ Ndmask >= 1) =>
        /\ pc = "done"
        /\ out.shape = Append(Lead, Cardinality(Trues))
        /\ Len(out.shape) = Ndarray - (Ndmask - 1)

\* C18 amended: the shape is (d1..d(m-r), t) when the mask has an element;
\* with a mask that has a dimension 0, narray // nmask of line 118 raises
\* ZeroDivisionError and nothing is returned.
C18_PackShapeNonEmpty ==
    (pc \in {"done", "error"} /\ TrailingMatch /\ Ndmask >= 1) =>
        IF Nmask > 0
        THEN /\ pc = "done"
             /\ out.shape = Append(Lead, Cardinality(Trues))
             /\ Len(out.shape) = Ndarray - (Ndmask - 1)
        ELSE pc = "error" /\ err = "ZeroDivisionError" /\ out = Unset

\* an array of three dimensions packed under a mask of two with some
\* elements true and some false: two dimensions are returned
C18_Witness ==
    /\ pc = "done" /\ Ndarray = 3 /\ Ndmask = 2
    /\ Cardinality(Trues) \in 1..(Nmask - 1)
    /\ Len(out.shape) = 2
    /\ out.shape[2] = Cardinality(Trues)

RECURSIVE SumAt(_, _)
SumAt(a, S) ==
    IF S = {} THEN 0
    ELSE LET x == CHOOSE y \in S : TRUE IN a.at[x] + SumAt(a, S \ {x})

C20_PackAsserts ==
    /\ err = "AssertionError" =>
          /\ pc = "error" /\ ~TrailingMatch
          /\ out = Unset /\ afmask = Unset /\ afarray = Unset
          /\ Ndarray >= Ndmask => kPack < 0
    /\ (pc \in {"done", "error"} /\ ~TrailingMatch) => err = "AssertionError"
    /\ (pc \notin {"assert", "dims"}  /\ pc # "error") => TrailingMatch

\* the assertion of line 112 failed on the last dimension but one, the last
\* dimensions agreeing
C20_Witness ==
    /\ pc = "error" /\ err = "AssertionError"
    /\ Ndarray >= Ndmask /\ kPack = -2
    /\ FromEnd(Dmask, -1) = FromEnd(Darray, -1)

\* the assertion of line 108 failed
C20_WitnessRank ==
    /\ pc = "error" /\ err = "AssertionError"
    /\ Ndarray < Ndmask /\ kPack = Unset


\* the call under way has resolved its input to A, B and C
Resolved ==
    \/ pc \in {"scalars", "loop", "done"}
    \/ pc = "error" /\ err \in {"ZeroDivisionError", "BroadcastError",
                                "NegativeDimensions"}

\* C27: in packed mode with len(S) = ns*(k+2), k >= 0, the input resolves
\* with k = len(S)/ns - 2, A[j] = S[j], B[j] = S[ns+j] and
\* C[i][j] = S[2*ns + i*ns + j]; and an explicit call's (A, B, C) packed as
\* A ++ B ++ rows of C resolves to the same A, B and C.
C27_PackedLayout ==
    /\ (UsePacked(s, ns, ya) /\ pc \in {"scalars", "loop", "done", "error"}
        /\ (si \/ sti)
        /\ Len(s.v) % ns.v = 0 /\ Len(s.v) >= 2 * ns.v) =>
          /\ Resolved
          /\ nsa = ns.v
          /\ nn * ns.v = Len(s.v) - 2 * ns.v
          /\ Len(iyA) = ns.v /\ Len(iyB) = ns.v /\ Len(iyC) = nn
          /\ \A j \in 0..(ns.v - 1) :
                /\ iyA[j + 1] = s.v[j + 1]
                /\ iyB[j + 1] = s.v[ns.v + j + 1]
                /\ \A r \in 0..(nn - 1) :
                      iyC[r + 1][j + 1] = s.v[2 * ns.v + r * ns.v + j + 1]
    /\ (ConsistentExplicit /\ Resolved) =>
          \A u \in BOOLEAN :
              LET p == Packed(ya.v, yb.v, yc.v)
                  r == ResolvePacked(p.s, p.ns, u)
              IN  /\ r.err = "none"
                  /\ r.nsa = nsa /\ r.nn = nn
                  /\ r.iyA = iyA /\ r.iyB = iyB /\ r.iyC = iyC

\* a packed call of two parameters and ns = 2 whose A, B and rows of C all
\* differ has been resolved
C27_Witness ==
    /\ UsePacked(s, ns, ya) /\ pc = "done"
    /\ nsa = 2 /\ nn = 2
    /\ iyA # iyB /\ iyC[1] # iyC[2] /\ iyC[1][1] # iyC[1][2]
    /\ iyA # iyC[1] /\ iyB # iyC[2]


\* the list the loop of lines 137-144, run in sequence, returns for A, B, C
Sequential(pA, pB, pC) == SobolIndex(ExplicitCall(pA, pB, pC), si, sti, TRUE).out

\* C26: with the iterations run in any order and their two halves
\* interleaved, every index assigned is the one the sequential loop assigns,
\* the list returned is the list of the sequential call, and the indices of
\* row i are those of every call that differs in another row j only.
C26_Independent ==
    /\ pc = "loop" =>
          \A k \in 1..nn :
              /\ (si /\ isi[k] # Uninit) => isi[k] = Sequential(iyA, iyB, iyC)[1][k]
              /\ (sti /\ isti[k] # Uninit) =>
                    isti[k] = Sequential(iyA, iyB, iyC)[IF si THEN 2 ELSE 1][k]
    /\ pc = "done" =>
          /\ \A u \in BOOLEAN :
                SobolIndex(CurCall, si, sti, u) = [err |-> "none", out |-> out]
          /\ \A k \in 1..nn : \A j \in (1..nn) \ {k} : \A r \in SeqsOfLen(nsa) :
                \A x \in 1..Len(out) :
                    Sequential(iyA, iyB, [iyC EXCEPT ![j] = r])[x][k] = out[x][k]

\* the iteration of the second row has assigned both its indices before the
\* iteration of the first row has assigned any
C26_Witness ==
    /\ pc = "loop" /\ si /\ sti /\ nn = 2
    /\ isi[1] = Uninit /\ isti[1] = Uninit
    /\ isi[2] # Uninit /\ isti[2] # Uninit
    /\ Finite(isi[2]) /\ iyC[1] # iyC[2]

\* the rows of stratum (ii, jj): ii*n + strata*n*jj .. (ii+1)*n + strata*n*jj - 1
StratumRows(ii, jj) ==
    {r \in 0..(strata * strata * nPts - 1) :
        r >= ii * nPts + strata * nPts * jj /\ r <= (ii + 1) * nPts + strata * nPts * jj - 1}

\* srrasa does not fail; no row is assigned twice; and at the return there are
\* strata**2*n rows, the rows of stratum (i, j) hold n points with x in
\* [xsteps[i], xsteps[i+1]) and y in [ysteps[j], ysteps[j+1]), every row
\* belongs to one stratum only and has been assigned once
StrataFilled ==
    /\ pc # "error"
    /\ pc \in {"fill", "done"} => \A r \in DOMAIN nwritten : nwritten[r] <= 1
    /\ pc = "done" =>
          /\ Len(rand_xy) = strata * strata * nPts
          /\ \A ii \in 0..(strata - 1), jj \in 0..(strata - 1) :
                /\ Cardinality(StratumRows(ii, jj)) = nPts
                /\ \A r \in StratumRows(ii, jj) :
                      /\ RLeq(xsteps[ii + 1], rand_xy[r + 1][1])
                      /\ RLt(rand_xy[r + 1][1], xsteps[ii + 2])
                      /\ RLeq(ysteps[jj + 1], rand_xy[r + 1][2])
                      /\ RLt(rand_xy[r + 1][2], ysteps[jj + 2])
          /\ \A r \in 0..(strata * strata * nPts - 1) :
                /\ Cardinality({c \in (0..(strata - 1)) \X (0..(strata - 1)) :
                                    r \in StratumRows(c[1], c[2])}) = 1
                /\ nwritten[r + 1] = 1

NoDataWritten ==
    /\ \A n \in DOMAIN fhandle.variables :
          fhandle.variables[n].data =
              (IF n \in DOMAIN fentry.variables THEN fentry.variables[n].data ELSE <<>>)
    /\ \A n \in DOMAIN fentry.dimensions : fhandle.dimensions[n].len = fentry.dimensions[n].len

\* C23: a call with fileattributes returns None without an error; every
\* pair [name, value] of the list is a global attribute afterwards unless a
\* later pair of the list has the same name, the other global attributes are
\* as before; the dimensions and the variables, their attributes and their
\* data are those the call found, whatever the other arguments are
C23_FileAttributesOnly ==
    (Given(fileattributes) /\ pc # "fileattrs") =>
        /\ pc = "done" /\ err = "none" /\ ret = None
        /\ hand = Unset /\ typ = Unset
        /\ fhandle.dimensions = fentry.dimensions
        /\ fhandle.variables = fentry.variables
        /\ LET list == fileattributes.v
               names == {list[m][1] : m \in 1..Len(list)}
           IN  /\ DOMAIN fhandle.attrs = DOMAIN fentry.attrs \cup names
               /\ \A m \in 1..Len(list) :
                     \/ fhandle.attrs[list[m][1]] = list[m][2]
                     \/ \E m2 \in (m + 1)..Len(list) : list[m2][1] = list[m][1]
               /\ \A n \in DOMAIN fentry.attrs \ names : fhandle.attrs[n] = fentry.attrs[n]

\* the second call on a file with a variable: file attributes passed together
\* with the handle, data, a time, isdim, a name, dims and attributes
C23_Witness ==
    /\ pc = "done" /\ callno = 2
    /\ fileattributes = Arr(<<<<"history", "a">>, <<"history", "b">>>>)
    /\ fhandle.attrs["history"] = "b"
    /\ Given(vhandle) /\ Given(var) /\ Given(time) /\ isdim /\ Given(dims) /\ Given(attributes)

C25_TimeChecks ==
    /\ (Given(var) /\ Given(time) /\ hand # Unset /\ pc \in {"return", "done", "error"}) =>
          LET nd == Len(fhandle.variables[hand.name].dims)
              vd == Len(var.shape)
              bad == \/ time.tag = "num" /\ vd # nd - 1
                     \/ time.tag = "arr" /\ vd # nd
                     \/ time.tag = "mat"
                     \/ nd = 0
                     \/ nd > 6
          IN  bad => pc = "error" /\ err = "ValueError"
    /\ pc = "error" => NoDataWritten

\* a variable on seven dimensions created by the call, an array of six
\* dimensions and a scalar time: the dimensions agree and the call fails
C25_Witness ==
    /\ pc = "error" /\ err = "ValueError"
    /\ hand = Handle("v") /\ time = Num(0) /\ var = Nd(<<2, 2, 2, 2, 2, 2>>)
    /\ Len(fhandle.variables["v"].dims) = 7

====
